---- MODULE Spec2Model ----
(***************************************************************************)
(* Model of scripts/run_tests.py of the browser-test-reporter skill:       *)
(* execute_step (one canonical Step against a page), run_test_case (the    *)
(* case runner with its skip policy and page lifecycle) and main (the      *)
(* sequential loop over the suite and the summary).                        *)
(*                                                                         *)
(* The browser is the environment.  Every browser operation either returns *)
(* or raises an error with some text; which one happens is drawn from      *)
(* bounded sets.  Python's None is the value None below; strings that the  *)
(* code takes apart (targets, URLs) are sequences of characters.           *)
(***************************************************************************)
EXTENDS Integers, Sequences, FiniteSets, TLC

VARIABLES
    test_cases,         \* main: the suite read from test_cases.json
    base_url,           \* main: args.base_url or meta.base_url
    record_video,       \* main: args.video
    pc,                 \* position of the single thread of control
    ci,                 \* main: 1-based position of the for loop over test_cases
    all_results,        \* main: list of TestCaseResult dicts
    summary,            \* main: results_payload["summary"], None until built
    page,               \* run_test_case: the page of the running case
    video_context,      \* run_test_case: dedicated context when recording video
    resolved_steps,     \* run_test_case: steps after pre-processing
    idx,                \* run_test_case: 0-based position of the step loop
    step_results,       \* run_test_case: list of StepResult dicts
    tc_status,          \* run_test_case
    tc_error,           \* run_test_case
    interaction_failed, \* run_test_case
    video_file,         \* run_test_case
    aborted,            \* history: an exception escaped the step loop of this case
    executed,           \* history: calls of execute_step made by this case
    open_pages,         \* browser: pages created and not closed
    open_contexts,      \* browser: video contexts created and not closed
    xpc,                \* execute_step harness: "idle" or "returned"
    xstep,              \* execute_step harness: the step of the last call
    xret,               \* execute_step harness: what the last call did
    fpc,                \* parse_docx harness: "idle" or "returned"
    farg,               \* parse_docx harness: the argument of the last call
    fret,               \* parse_docx harness: what the last call returned
    step_action_patterns, \* parse_docx: the module-level list of rules
    history             \* parse_docx harness: the infer_step calls made so far

vars == <<test_cases, base_url, record_video, pc, ci, all_results, summary,
          page, video_context, resolved_steps, idx, step_results, tc_status,
          tc_error, interaction_failed, video_file, aborted, executed,
          open_pages, open_contexts, xpc, xstep, xret,
          fpc, farg, fret, step_action_patterns, history>>

mainVars == <<test_cases, base_url, record_video, pc, ci, all_results, summary,
              page, video_context, resolved_steps, idx, step_results, tc_status,
              tc_error, interaction_failed, video_file, aborted, executed,
              open_pages, open_contexts>>

execVars == <<xpc, xstep, xret>>

parserVars == <<fpc, farg, fret, step_action_patterns, history>>

-----------------------------------------------------------------------------
(* Bounds of the model.                                                    *)

\* browser operations of one execute_step call whose outcome is drawn
MaxOps == 6
\* largest value locator.count() returns
MaxCount == 3
\* steps of a generated test case
MaxSteps == 2
\* test cases of a generated suite
MaxCases == 2

-----------------------------------------------------------------------------
(* Python values.                                                          *)

None == "<None>"
Ok == "ok"

\* dict.get(key, default): a dict is a function, an absent key is outside
\* its domain
Get(d, key, default) == IF key \in DOMAIN d THEN d[key] ELSE default

\* truth value of an Optional[str]: None and "" are falsy
Truthy(s) == s # None /\ s # ""

Min(a, b) == IF a < b THEN a ELSE b

\* str.startswith
StartsWith(s, p) == Len(s) >= Len(p) /\ SubSeq(s, 1, Len(p)) = p

\* str.rstrip(c), str.lstrip(c) for a one-character c
RECURSIVE RStrip(_, _)
RStrip(s, c) ==
    IF s # <<>> /\ s[Len(s)] = c THEN RStrip(SubSeq(s, 1, Len(s) - 1), c) ELSE s

RECURSIVE LStrip(_, _)
LStrip(s, c) == IF s # <<>> /\ s[1] = c THEN LStrip(Tail(s), c) ELSE s

\* str.strip() on the whitespace of the model, the blank
Strip(s) == RStrip(LStrip(s, " "), " ")

\* str.split(c): the pieces between the occurrences of c, empty ones kept
RECURSIVE SplitAcc(_, _, _)
SplitAcc(s, c, cur) ==
    IF s = <<>> THEN <<cur>>
    ELSE IF s[1] = c THEN <<cur>> \o SplitAcc(Tail(s), c, <<>>)
    ELSE SplitAcc(Tail(s), c, Append(cur, s[1]))

Split(s, c) == SplitAcc(s, c, <<>>)

-----------------------------------------------------------------------------
(* execute_step.                                                           *)
(*                                                                         *)
(* An oracle o fixes what the browser does during one call: o.out[k] is    *)
(* the outcome of the k-th browser operation the call makes (Ok, or the    *)
(* text of the error it raises), o.count is what locator.count() returns   *)
(* and o.holds whether the compared text/url/title contains the expected   *)
(* one.  Operations past the drawn horizon succeed.                        *)

OutAt(o, k) == IF k \in DOMAIN o.out THEN o.out[k] ELSE Ok

\* str(AssertionError) of the assert statements: always a non-empty message
AssertMsg == "Expected ..."

\* A thread of execution inside the call: k is the position of the next
\* browser operation, trace the operations made so far, err the exception
\* in flight (None when there is none).
Start == [k |-> 1, trace |-> <<>>, err |-> None]

\* one browser operation; nothing happens while an exception is in flight
Call(st, o, op) ==
    IF st.err # None THEN st
    ELSE [k |-> st.k + 1,
          trace |-> Append(st.trace, [op |-> op, out |-> OutAt(o, st.k)]),
          err |-> IF OutAt(o, st.k) = Ok THEN None ELSE OutAt(o, st.k)]

\* one browser operation on the locator of selector sel
CallOn(st, o, op, sel) ==
    IF st.err # None THEN st
    ELSE [k |-> st.k + 1,
          trace |-> Append(st.trace,
                           [op |-> op, out |-> OutAt(o, st.k), sel |-> sel]),
          err |-> IF OutAt(o, st.k) = Ok THEN None ELSE OutAt(o, st.k)]

\* locator.nth(i).click(): one browser operation on the i-th match
CallNth(st, o, i) ==
    IF st.err # None THEN st
    ELSE [k |-> st.k + 1,
          trace |-> Append(st.trace,
                           [op |-> "nth.click", out |-> OutAt(o, st.k), nth |-> i]),
          err |-> IF OutAt(o, st.k) = Ok THEN None ELSE OutAt(o, st.k)]

\* an assert statement
AssertThat(st, cond) ==
    IF st.err # None \/ cond THEN st ELSE [st EXCEPT !.err = AssertMsg]

\* str.lower() of one character
UpperCase == <<"A", "B", "C", "D", "E", "F", "G", "H", "I", "J", "K", "L", "M",
               "N", "O", "P", "Q", "R", "S", "T", "U", "V", "W", "X", "Y", "Z">>
LowerCase == <<"a", "b", "c", "d", "e", "f", "g", "h", "i", "j", "k", "l", "m",
               "n", "o", "p", "q", "r", "s", "t", "u", "v", "w", "x", "y", "z">>
ToLower ==
    [c \in {UpperCase[i] : i \in 1 .. Len(UpperCase)} |->
        LowerCase[CHOOSE i \in 1 .. Len(UpperCase) : UpperCase[i] = c]]
LowerChar(c) == IF c \in DOMAIN ToLower THEN ToLower[c] ELSE c

\* str.lower()
Lower(s) == [i \in 1 .. Len(s) |-> LowerChar(s[i])]

\* str.removeprefix(p)
RemovePrefix(s, p) ==
    IF StartsWith(s, p) THEN SubSeq(s, Len(p) + 1, Len(s)) ELSE s

HtmlTags ==
    {<<"b", "o", "d", "y">>, <<"h", "t", "m", "l">>, <<"h", "e", "a", "d">>,
     <<"m", "a", "i", "n">>, <<"h", "e", "a", "d", "e", "r">>,
     <<"f", "o", "o", "t", "e", "r">>, <<"n", "a", "v">>,
     <<"s", "e", "c", "t", "i", "o", "n">>,
     <<"a", "r", "t", "i", "c", "l", "e">>, <<"d", "i", "v">>,
     <<"s", "p", "a", "n">>, <<"a">>, <<"p">>, <<"u", "l">>, <<"l", "i">>,
     <<"f", "o", "r", "m">>, <<"i", "n", "p", "u", "t">>,
     <<"b", "u", "t", "t", "o", "n">>, <<"s", "e", "l", "e", "c", "t">>,
     <<"t", "e", "x", "t", "a", "r", "e", "a">>, <<"t", "a", "b", "l", "e">>,
     <<"t", "r">>, <<"t", "d">>, <<"t", "h">>, <<"h", "1">>, <<"h", "2">>,
     <<"h", "3">>, <<"h", "4">>, <<"h", "5">>, <<"h", "6">>,
     <<"i", "m", "g">>}

\* the prefixes of a target that is a locator already
LocatorPrefixes ==
    {<<"t", "e", "x", "t", "=">>,
     <<"r", "o", "l", "e", "=">>,
     <<"c", "s", "s", "=">>,
     <<"#">>,
     <<".">>,
     <<"[">>,
     <<"/", "/">>,
     <<"x", "p", "a", "t", "h", "=">>}

\* "css="
CssPrefix == <<"c", "s", "s", "=">>
\* "text="
TextPrefix == <<"t", "e", "x", "t", "=">>

\* the characters of [#\[\].:>+~()]
CssSpecialChars == {"#", "[", "]", ".", ":", ">", "+", "~", "(", ")"}

\* _selector_or_text
SelectorOrText(target) ==
    IF \E p \in LocatorPrefixes : StartsWith(target, p)
    THEN RemovePrefix(target, CssPrefix)
    ELSE IF Lower(target) \in HtmlTags THEN target
    ELSE IF \E i \in 1 .. Len(target) : target[i] \in CssSpecialChars THEN target
    ELSE TextPrefix \o target

\* for i in range(1, min(count, 5)): try nth(i).click; clicked = True; break
\*                                   except Exception: continue
RECURSIVE ProbeNeighbours(_, _, _, _)
ProbeNeighbours(st, o, i, n) ==
    IF i >= n THEN [st |-> st, clicked |-> FALSE]
    ELSE LET a == CallNth(st, o, i)
         IN IF a.err = None THEN [st |-> a, clicked |-> TRUE]
            ELSE ProbeNeighbours([a EXCEPT !.err = None], o, i + 1, n)

ClickLimit == 5

DoClick(st, o) ==
    LET first == Call(st, o, "first.click")
    IN IF first.err = None THEN Call(first, o, "wait_for_load_state")
       ELSE LET c == Call([first EXCEPT !.err = None], o, "count")
            IN IF c.err # None THEN c
               ELSE LET p == ProbeNeighbours(c, o, 1, Min(o.count, ClickLimit))
                    IN IF p.clicked THEN Call(p.st, o, "wait_for_load_state")
                       ELSE [p.st EXCEPT !.err = first.err]

\* variant: the loop goes on after a candidate was filled
RECURSIVE TryCandidatesNoBreak(_, _, _)
TryCandidatesNoBreak(st, o, sels) ==
    IF sels = <<>> THEN [st |-> st, filled |-> FALSE]
    ELSE LET a == CallOn(CallOn(st, o, "wait_for", sels[1]), o, "fill", sels[1])
             rest == TryCandidatesNoBreak([a EXCEPT !.err = None], o, Tail(sels))
         IN [st |-> rest.st, filled |-> a.err = None \/ rest.filled]

\* for sel in selectors: try wait_for + fill; filled = True; break
\*                       except Exception: continue
RECURSIVE TryCandidates(_, _, _)
TryCandidates(st, o, sels) ==
    IF sels = <<>> THEN [st |-> st, filled |-> FALSE]
    ELSE LET a == CallOn(CallOn(st, o, "wait_for", sels[1]), o, "fill", sels[1])
         IN IF a.err = None THEN [st |-> a, filled |-> TRUE]
            ELSE TryCandidates([a EXCEPT !.err = None], o, Tail(sels))

\* selectors = [s.strip() for s in target.split(",")]
Selectors(target) ==
    LET parts == Split(target, ",") IN [j \in 1 .. Len(parts) |-> Strip(parts[j])]

DoFill(st, o, target) ==
    LET t == TryCandidates(st, o, Selectors(target))
    IN IF t.filled THEN t.st
       ELSE CallOn(t.st, o, "fallback.fill", SelectorOrText(target))

\* the if/elif chain of the try block, up to the post-action screenshot
DoAction(action, target, o) ==
    CASE action = "goto" -> Call(Call(Start, o, "goto"), o, "wait_for_load_state")
      [] action = "click" -> DoClick(Start, o)
      [] action = "fill" -> DoFill(Start, o, target)
      [] action = "select" -> Call(Start, o, "select_option")
      [] action = "hover" -> Call(Start, o, "hover")
      [] action = "wait" -> Call(Start, o, "wait_for_timeout")
      [] action = "scroll" -> Call(Call(Start, o, "evaluate"), o, "wait_for_timeout")
      [] action = "screenshot" -> Call(Start, o, "screenshot")
      [] action = "assert_visible" -> Call(Start, o, "wait_for")
      [] action = "assert_text" -> AssertThat(Call(Start, o, "inner_text"), o.holds)
      [] action = "assert_url" -> AssertThat(Start, o.holds)
      [] action = "assert_title" -> AssertThat(Call(Start, o, "title"), o.holds)
      [] OTHER -> Start

\* variant: the screenshot step does not return before the generic screenshot
PostScreenshotAlways(action, st, o) == Call(st, o, "screenshot")

\* the generic screenshot after a successful action; a screenshot step has
\* returned before it
PostScreenshot(action, st, o) ==
    IF action = "screenshot" THEN st ELSE Call(st, o, "screenshot")

\* variant: no try/except around the failure screenshot
SwallowNothing(st) == st

\* try: ... except Exception: pass
Swallow(st) == [st EXCEPT !.err = None]

\* except Exception as e: the failure screenshot, its own error swallowed
FailScreenshot(st, o) ==
    Swallow(Call([st EXCEPT !.err = None], o, "fail_screenshot"))

\* what the call returns: result is the StepResult dict, trace the browser
\* operations it made, raised the exception it propagates (None: it returns)
ExecuteStep(step, step_idx, o) ==
    LET action == Get(step, "action", "")
        target == Get(step, "target", <<>>)
        value  == Get(step, "value", <<>>)
        body   == PostScreenshot(action, DoAction(action, target, o), o)
        shot   == FailScreenshot(body, o)
        made   == shot.trace[Len(shot.trace)]
    IN IF body.err = None
       THEN [result |-> [index |-> step_idx, action |-> action, target |-> target,
                         value |-> value, status |-> "passed",
                         screenshot |-> "step.png", error |-> None],
             trace |-> body.trace, raised |-> None]
       ELSE [result |-> [index |-> step_idx, action |-> action, target |-> target,
                         value |-> value, status |-> "failed",
                         screenshot |-> IF made.out = Ok THEN "FAIL.png" ELSE None,
                         error |-> body.err],
             trace |-> shot.trace, raised |-> shot.err]

-----------------------------------------------------------------------------
(* Inputs of the model: steps, cases, suites and browser behaviours.       *)

Slash == "/"
Http == <<"h", "t", "t", "p">>

\* "http://s/"
SiteUrl == Http \o <<":", "/", "/", "s", "/">>
\* "http://s/p"
AbsTarget == Http \o <<":", "/", "/", "s", "/", "p">>
\* "/p"
RelTarget == <<"/", "p">>
\* "#a, #b"
TwoSelectors == <<"#", "a", ",", " ", "#", "b">>
\* "#e"
OneSelector == <<"#", "e">>

Actions == {"goto", "click", "fill", "select", "hover", "wait", "scroll",
            "screenshot", "assert_visible", "assert_text", "assert_url",
            "assert_title"}

\* a well-formed step of each action
StepOf(a) ==
    [action |-> a,
     target |-> CASE a = "goto" -> RelTarget
                  [] a = "fill" -> TwoSelectors
                  [] a = "wait" -> <<"5">>
                  [] OTHER -> OneSelector,
     value |-> <<"v">>]

\* steps outside the Step contract: no "action" key, an action the executor
\* does not know, a goto without "target"
NoActionStep == [target |-> OneSelector]
UnknownStep == [action |-> "drag", target |-> OneSelector, value |-> <<>>]
NoTargetGoto == [action |-> "goto"]

AbsGoto == [action |-> "goto", target |-> AbsTarget, value |-> <<>>]

InputSteps ==
    {StepOf(a) : a \in Actions}
        \cup {NoActionStep, UnknownStep, NoTargetGoto, AbsGoto}

RECURSIVE SeqsUpTo(_, _)
SeqsUpTo(S, n) ==
    IF n = 0 THEN {<<>>}
    ELSE LET shorter == SeqsUpTo(S, n - 1)
         IN shorter \cup {Append(q, x) : q \in {r \in shorter : Len(r) = n - 1}, x \in S}

\* the case of the cascading-skip example
CascadeSteps ==
    <<StepOf("goto"), StepOf("click"), StepOf("fill"), StepOf("assert_visible"),
      StepOf("screenshot")>>

Case(n, steps) == [id |-> n, steps |-> steps]

\* steps of the generated longer cases and of the suites of several cases
StepSample ==
    {StepOf("goto"), StepOf("click"), StepOf("assert_visible"),
     StepOf("screenshot"), NoActionStep}
SuiteSteps == {AbsGoto, NoActionStep, NoTargetGoto}

\* the cases of the suites of one case: every pair of input steps, the
\* sequences of up to MaxSteps sampled steps, the cascading-skip example
SingleCases ==
    {<<s, t>> : s \in InputSteps, t \in InputSteps}
        \cup SeqsUpTo(StepSample, MaxSteps) \cup {CascadeSteps}

\* suites of one case, and suites of up to MaxCases one-step cases
Suites ==
    {<<Case(1, q)>> : q \in SingleCases}
        \cup {[n \in 1 .. Len(q) |-> Case(n, <<q[n]>>)] :
                 q \in SeqsUpTo(SuiteSteps, MaxCases)}

BaseUrls == {<<>>, SiteUrl}

\* texts of the errors the browser raises during a run
RunTexts == {"", "Timeout 10000ms exceeded."}

\* during a run the operations that raise within one call raise the same text
RunOracles ==
    {[out |-> [k \in 1 .. MaxOps |-> IF k \in R THEN t ELSE Ok],
      count |-> c, holds |-> h] :
        R \in SUBSET (1 .. MaxOps), t \in RunTexts, c \in 0 .. MaxCount,
        h \in BOOLEAN}

-----------------------------------------------------------------------------
(* run_test_case.                                                          *)

\* the actions skipped once interaction_failed is set
SkippedActions ==
    {"click", "fill", "select", "hover",
     "assert_visible", "assert_text", "assert_url", "assert_title"}

\* the actions whose failure sets interaction_failed
InteractionActions == {"click", "fill", "select", "hover"}

\* any(s.get("action") == "goto" for s in steps)
HasGoto(steps) == \E j \in 1 .. Len(steps) : Get(steps[j], "action", "") = "goto"

\* variant: base_url and target are concatenated as they are
ResolveStepConcat(s, url) ==
    IF Get(s, "action", "") = "goto"
    THEN IF StartsWith(s.target, Http) THEN s
         ELSE IF StartsWith(s.target, <<Slash>>)
         THEN [s EXCEPT !.target = url \o s.target]
         ELSE [s EXCEPT !.target = url]
    ELSE s

\* s2 = dict(s) with the target of a goto resolved against base_url
ResolveStep(s, url) ==
    IF Get(s, "action", "") = "goto"
    THEN IF StartsWith(s.target, Http) THEN s
         ELSE IF StartsWith(s.target, <<Slash>>)
         THEN [s EXCEPT !.target = RStrip(url, Slash) \o <<Slash>> \o LStrip(s.target, Slash)]
         ELSE [s EXCEPT !.target = RStrip(url, Slash) \o <<Slash>>]
    ELSE s

\* variant: the implicit goto is appended after the steps
ResolveStepsGotoLast(steps, url) ==
    [j \in 1 .. Len(steps) |-> ResolveStep(steps[j], url)]
        \o (IF ~HasGoto(steps) /\ url # <<>>
            THEN <<[action |-> "goto", target |-> url]>> ELSE <<>>)

\* resolved_steps: the implicit goto, then every step resolved
ResolveSteps(steps, url) ==
    (IF ~HasGoto(steps) /\ url # <<>>
     THEN <<[action |-> "goto", target |-> url]>> ELSE <<>>)
        \o [j \in 1 .. Len(steps) |-> ResolveStep(steps[j], url)]

\* s2["target"] raises KeyError for a goto step without "target"
PreprocessRaises(steps) ==
    \E j \in 1 .. Len(steps) :
        Get(steps[j], "action", "") = "goto" /\ "target" \notin DOMAIN steps[j]

\* variant: the skipped StepResult numbers the steps from 1
SkippedResultFromOne(step, i) ==
    [index |-> i + 1, action |-> Get(step, "action", ""),
     target |-> Get(step, "target", <<>>), value |-> Get(step, "value", <<>>),
     status |-> "skipped", screenshot |-> None,
     error |-> "Skipped: prior step failed"]

\* variant: the skipped StepResult carries no error text
SkippedResultNoReason(step, i) ==
    [index |-> i, action |-> Get(step, "action", ""),
     target |-> Get(step, "target", <<>>), value |-> Get(step, "value", <<>>),
     status |-> "skipped", screenshot |-> None, error |-> None]

\* the StepResult of a skipped step
SkippedResult(step, i) ==
    [index |-> i, action |-> Get(step, "action", ""),
     target |-> Get(step, "target", <<>>), value |-> Get(step, "value", <<>>),
     status |-> "skipped", screenshot |-> None,
     error |-> "Skipped: prior step failed"]

\* variant: the assertions are left out of the skipped actions
SkipsStepInteractionsOnly(failed, action) == failed /\ action \in InteractionActions

\* variant: every step after an interaction failure is skipped
SkipsStepEverything(failed, action) == failed

\* if interaction_failed and action in (...)
SkipsStep(failed, action) == failed /\ action \in SkippedActions

\* variant: the failure of any step sets interaction_failed
SetsInteractionFailedAlways(action) == TRUE

\* if action in ("click", "fill", "select", "hover"): interaction_failed = True
SetsInteractionFailed(action) == action \in InteractionActions

\* if not tc_error: tc_error = r["error"]
FirstError(err, r) == IF ~Truthy(err) THEN r.error ELSE err

\* traceback.format_exc(): a non-empty text
Traceback == "Traceback (most recent call last): ..."

\* variant: the except clause keeps tc_error as it is
AbortErrorKept(err) == err

\* tc_error = tc_error or traceback.format_exc()
AbortError(err) == IF Truthy(err) THEN err ELSE Traceback

\* variants: the except clause leaves the case passed, or marks it "error"
AbortStatusPassed == "passed"
AbortStatusError == "error"

\* tc_status of the except clause of the step loop
AbortStatus == "failed"

\* the steps run_test_case can hand to execute_step
RunSteps ==
    {ResolveStep(s, u) : s \in InputSteps \ {NoTargetGoto}, u \in BaseUrls}
        \cup {[action |-> "goto", target |-> u] : u \in BaseUrls}

\* what execute_step can do with each step, over the browser behaviours of a
\* run: the StepResult (its index left at 0) and the exception propagated
OutcomeTable ==
    [s \in RunSteps |->
        {[result |-> x.result, raised |-> x.raised] :
            x \in {ExecuteStep(s, 0, o) : o \in RunOracles}}]

StepOutcomes(step) == OutcomeTable[step]

CurrentCase == test_cases[ci]
CurrentStep == resolved_steps[idx + 1]
CurrentAction == Get(CurrentStep, "action", "")

\* the objects the browser creates for the n-th case
NewPage(n) == "page" \o ToString(n)
NewContext(n) == "context" \o ToString(n)

\* page = context.new_page(), or video_context.new_page() on a context of
\* its own when recording
OpenPage ==
    /\ pc = "loop" /\ ci <= Len(test_cases)
    /\ page' = NewPage(ci)
    /\ open_pages' = open_pages \cup {NewPage(ci)}
    /\ video_context' = IF record_video THEN NewContext(ci) ELSE None
    /\ open_contexts' = IF record_video THEN open_contexts \cup {NewContext(ci)}
                        ELSE open_contexts
    /\ pc' = "prep"
    /\ UNCHANGED <<test_cases, base_url, record_video, ci, all_results, summary,
                   resolved_steps, idx, step_results, tc_status, tc_error,
                   interaction_failed, video_file, aborted, executed>>

\* new_context() or new_page() raises: nothing in run_test_case or main
\* catches it
OpenPageFails ==
    /\ pc = "loop" /\ ci <= Len(test_cases)
    /\ \E contextOpened \in {FALSE, record_video} :
          open_contexts' = IF contextOpened THEN open_contexts \cup {NewContext(ci)}
                           ELSE open_contexts
    /\ pc' = "crashed"
    /\ UNCHANGED <<test_cases, base_url, record_video, ci, all_results, summary,
                   page, video_context, resolved_steps, idx, step_results,
                   tc_status, tc_error, interaction_failed, video_file, aborted,
                   executed, open_pages>>

\* variant: s2 = s, the goto targets are resolved in the dicts of the input
StepsLeftResolved(steps, url) ==
    [j \in 1 .. Len(steps) |-> ResolveStep(steps[j], url)]

\* tc["steps"] after lines 211-229: s2 = dict(s) is a copy of the step, the
\* resolved target is written to the copy, and the implicit goto and the
\* copies are appended to resolved_steps, a list of its own
StepsLeft(steps, url) == steps

\* lines 206-231: the locals and the resolved copy of the steps
Preprocess ==
    /\ pc = "prep"
    /\ ~PreprocessRaises(Get(CurrentCase, "steps", <<>>))
    /\ test_cases' = [test_cases EXCEPT ![ci].steps = StepsLeft(@, base_url)]
    /\ resolved_steps' = ResolveSteps(Get(CurrentCase, "steps", <<>>), base_url)
    /\ step_results' = <<>>
    /\ tc_status' = "passed"
    /\ tc_error' = None
    /\ interaction_failed' = FALSE
    /\ idx' = 0
    /\ aborted' = FALSE
    /\ executed' = <<>>
    /\ video_file' = None
    /\ pc' = "iter"
    /\ UNCHANGED <<base_url, record_video, ci, all_results, summary,
                   page, video_context, open_pages, open_contexts>>

\* the KeyError of line 221 leaves run_test_case and main; the page stays open
PreprocessFails ==
    /\ pc = "prep"
    /\ PreprocessRaises(Get(CurrentCase, "steps", <<>>))
    /\ pc' = "crashed"
    /\ UNCHANGED <<test_cases, base_url, record_video, ci, all_results, summary,
                   page, video_context, resolved_steps, idx, step_results,
                   tc_status, tc_error, interaction_failed, video_file, aborted,
                   executed, open_pages, open_contexts>>

\* one turn of the step loop that skips the step
StepSkip ==
    /\ pc = "iter" /\ idx < Len(resolved_steps)
    /\ SkipsStep(interaction_failed, CurrentAction)
    /\ step_results' = Append(step_results, SkippedResult(CurrentStep, idx))
    /\ idx' = idx + 1
    /\ UNCHANGED <<test_cases, base_url, record_video, pc, ci, all_results,
                   summary, page, video_context, resolved_steps, tc_status,
                   tc_error, interaction_failed, video_file, aborted, executed,
                   open_pages, open_contexts>>

\* one turn of the step loop that hands the step to execute_step
StepExecute ==
    /\ pc = "iter" /\ idx < Len(resolved_steps)
    /\ ~SkipsStep(interaction_failed, CurrentAction)
    /\ "action" \in DOMAIN CurrentStep
    /\ \E x \in StepOutcomes(CurrentStep) :
          LET r == [x.result EXCEPT !.index = idx]
          IN /\ x.raised = None
             /\ step_results' = Append(step_results, r)
             /\ executed' = Append(executed,
                    [index |-> idx, action |-> CurrentAction, page |-> page,
                     status |-> r.status])
             /\ tc_status' = IF r.status = "failed" THEN "failed" ELSE tc_status
             /\ tc_error' = IF r.status = "failed" THEN FirstError(tc_error, r)
                            ELSE tc_error
             /\ interaction_failed' =
                    (interaction_failed
                        \/ (r.status = "failed" /\ SetsInteractionFailed(CurrentAction)))
    /\ idx' = idx + 1
    /\ UNCHANGED <<test_cases, base_url, record_video, pc, ci, all_results,
                   summary, page, video_context, resolved_steps, video_file,
                   aborted, open_pages, open_contexts>>

\* an exception leaves the loop body: step['action'] raises KeyError for a
\* step without "action", or execute_step itself raises
StepEscapes ==
    \/ "action" \notin DOMAIN CurrentStep
    \/ \E x \in StepOutcomes(CurrentStep) : x.raised # None

\* except Exception as e: of the step loop
StepAbort ==
    /\ pc = "iter" /\ idx < Len(resolved_steps)
    /\ ~SkipsStep(interaction_failed, CurrentAction)
    /\ StepEscapes
    /\ tc_status' = AbortStatus
    /\ tc_error' = AbortError(tc_error)
    /\ aborted' = TRUE
    /\ pc' = "finally"
    /\ UNCHANGED <<test_cases, base_url, record_video, ci, all_results, summary,
                   page, video_context, resolved_steps, idx, step_results,
                   interaction_failed, video_file, executed, open_pages,
                   open_contexts>>

\* the step loop ends
StepsDone ==
    /\ pc = "iter" /\ idx = Len(resolved_steps)
    /\ pc' = "finally"
    /\ UNCHANGED <<test_cases, base_url, record_video, ci, all_results, summary,
                   page, video_context, resolved_steps, idx, step_results,
                   tc_status, tc_error, interaction_failed, video_file, aborted,
                   executed, open_pages, open_contexts>>

\* variant: the page is not closed
PagesAfterCloseLeak(pages, p) == pages

\* the pages open after page.close() returned
PagesAfterClose(pages, p) == pages \ {p}

\* finally: page.close()
ClosePage ==
    /\ pc = "finally"
    /\ open_pages' = PagesAfterClose(open_pages, page)
    /\ pc' = "video"
    /\ UNCHANGED <<test_cases, base_url, record_video, ci, all_results, summary,
                   page, video_context, resolved_steps, idx, step_results,
                   tc_status, tc_error, interaction_failed, video_file, aborted,
                   executed, open_contexts>>

\* page.close() raises inside finally: the exception leaves run_test_case
ClosePageFails ==
    /\ pc = "finally"
    /\ pc' = "crashed"
    /\ UNCHANGED <<test_cases, base_url, record_video, ci, all_results, summary,
                   page, video_context, resolved_steps, idx, step_results,
                   tc_status, tc_error, interaction_failed, video_file, aborted,
                   executed, open_pages, open_contexts>>

\* if record_video and video_context: close the context, rename the newest
\* .webm of video_dir (when there is one) to <tc_id>.webm
SaveVideo ==
    /\ pc = "video"
    /\ IF record_video /\ video_context # None
       THEN /\ open_contexts' = open_contexts \ {video_context}
            /\ \E found \in BOOLEAN :
                  video_file' = IF found THEN "tc.webm" ELSE None
       ELSE UNCHANGED <<open_contexts, video_file>>
    /\ pc' = "return"
    /\ UNCHANGED <<test_cases, base_url, record_video, ci, all_results, summary,
                   page, video_context, resolved_steps, idx, step_results,
                   tc_status, tc_error, interaction_failed, aborted, executed,
                   open_pages>>

\* video_context.close() or the rename raises: the exception leaves
\* run_test_case
SaveVideoFails ==
    /\ pc = "video"
    /\ record_video /\ video_context # None
    /\ \E closed \in BOOLEAN :
          open_contexts' = IF closed THEN open_contexts \ {video_context}
                           ELSE open_contexts
    /\ pc' = "crashed"
    /\ UNCHANGED <<test_cases, base_url, record_video, ci, all_results, summary,
                   page, video_context, resolved_steps, idx, step_results,
                   tc_status, tc_error, interaction_failed, video_file, aborted,
                   executed, open_pages>>

\* the dict run_test_case returns
CaseResult ==
    [id |-> Get(CurrentCase, "id", "TC-???"), status |-> tc_status,
     steps |-> step_results, video |-> video_file, error |-> tc_error]

\* return {...}; all_results.append(result); the for loop moves on
Return ==
    /\ pc = "return"
    /\ all_results' = Append(all_results, CaseResult)
    /\ ci' = ci + 1
    /\ pc' = "loop"
    /\ UNCHANGED <<test_cases, base_url, record_video, summary, page,
                   video_context, resolved_steps, idx, step_results, tc_status,
                   tc_error, interaction_failed, video_file, aborted, executed,
                   open_pages, open_contexts>>

-----------------------------------------------------------------------------
(* main.                                                                   *)

\* sum(1 for r in all_results if r["status"] == st)
CountStatus(results, st) ==
    Cardinality({j \in 1 .. Len(results) : results[j].status = st})

\* results_payload["summary"], without the durations and timestamps
BuildSummary(results) ==
    [total |-> Len(results),
     passed |-> CountStatus(results, "passed"),
     failed |-> CountStatus(results, "failed"),
     skipped |-> CountStatus(results, "skipped")]

\* the for loop is over: the summary is built and written
Summarize ==
    /\ pc = "loop" /\ ci > Len(test_cases)
    /\ summary' = BuildSummary(all_results)
    /\ pc' = "done"
    /\ UNCHANGED <<test_cases, base_url, record_video, ci, all_results, page,
                   video_context, resolved_steps, idx, step_results, tc_status,
                   tc_error, interaction_failed, video_file, aborted, executed,
                   open_pages, open_contexts>>

-----------------------------------------------------------------------------
(* execute_step on its own: one call on a drawn step and browser behaviour. *)

\* "#a, #b, #c"
ThreeSelectors == TwoSelectors \o <<",", " ", "#", "c">>

\* "n, m": two candidates that are plain words
PlainSelectors == <<"n", ",", " ", "m">>

ExecSteps ==
    InputSteps \cup {[action |-> "fill", target |-> t, value |-> <<"v">>] :
                        t \in {ThreeSelectors, PlainSelectors}}

\* the text of the error the k-th operation of a call raises
ErrAt(k) == "Error#" \o ToString(k)

ExecOracles ==
    {[out |-> [k \in 1 .. MaxOps |-> IF k \in R THEN ErrAt(k) ELSE Ok],
      count |-> c, holds |-> h] :
        R \in SUBSET (1 .. MaxOps), c \in 0 .. MaxCount, h \in BOOLEAN}

NoReturn == [result |-> None, trace |-> <<>>, raised |-> None, oracle |-> None]

ExecIdle ==
    /\ xpc = "idle"
    /\ xstep = [action |-> "unknown"]
    /\ xret = NoReturn

\* r = execute_step(page, step, screenshot_dir, tc_id, 0)
ExecCall ==
    /\ xpc = "idle"
    /\ \E s \in ExecSteps, o \in ExecOracles :
          /\ xstep' = s
          /\ xret' = [result |-> ExecuteStep(s, 0, o).result,
                      trace |-> ExecuteStep(s, 0, o).trace,
                      raised |-> ExecuteStep(s, 0, o).raised,
                      oracle |-> o]
    /\ xpc' = "returned"

\* the harness is ready for another call
ExecReset ==
    /\ xpc = "returned"
    /\ xpc' = "idle"
    /\ xstep' = [action |-> "unknown"]
    /\ xret' = NoReturn

\* parse_docx.py is not loaded: no rule table, no call in progress
ParserIdle ==
    /\ fpc = "idle"
    /\ farg = <<>>
    /\ fret = <<>>
    /\ step_action_patterns = <<>>
    /\ history = <<>>

Init ==
    /\ test_cases \in Suites
    /\ base_url \in BaseUrls
    /\ record_video \in BOOLEAN
    /\ pc = "loop"
    /\ ci = 1
    /\ all_results = <<>>
    /\ summary = None
    /\ page = None
    /\ video_context = None
    /\ resolved_steps = <<>>
    /\ idx = 0
    /\ step_results = <<>>
    /\ tc_status = "passed"
    /\ tc_error = None
    /\ interaction_failed = FALSE
    /\ video_file = None
    /\ aborted = FALSE
    /\ executed = <<>>
    /\ open_pages = {}
    /\ open_contexts = {}
    /\ ExecIdle
    /\ ParserIdle

Next ==
    \/ (OpenPage /\ UNCHANGED <<execVars, parserVars>>)
    \/ (OpenPageFails /\ UNCHANGED <<execVars, parserVars>>)
    \/ (Preprocess /\ UNCHANGED <<execVars, parserVars>>)
    \/ (PreprocessFails /\ UNCHANGED <<execVars, parserVars>>)
    \/ (StepSkip /\ UNCHANGED <<execVars, parserVars>>)
    \/ (StepExecute /\ UNCHANGED <<execVars, parserVars>>)
    \/ (StepAbort /\ UNCHANGED <<execVars, parserVars>>)
    \/ (StepsDone /\ UNCHANGED <<execVars, parserVars>>)
    \/ (ClosePage /\ UNCHANGED <<execVars, parserVars>>)
    \/ (ClosePageFails /\ UNCHANGED <<execVars, parserVars>>)
    \/ (SaveVideo /\ UNCHANGED <<execVars, parserVars>>)
    \/ (SaveVideoFails /\ UNCHANGED <<execVars, parserVars>>)
    \/ (Return /\ UNCHANGED <<execVars, parserVars>>)
    \/ (Summarize /\ UNCHANGED <<execVars, parserVars>>)

Spec == Init /\ [][Next]_vars

\* execute_step alone: no suite is run
InitExec ==
    /\ test_cases = <<>>
    /\ base_url = <<>>
    /\ record_video = FALSE
    /\ pc = "exec"
    /\ ci = 1
    /\ all_results = <<>>
    /\ summary = None
    /\ page = None
    /\ video_context = None
    /\ resolved_steps = <<>>
    /\ idx = 0
    /\ step_results = <<>>
    /\ tc_status = "passed"
    /\ tc_error = None
    /\ interaction_failed = FALSE
    /\ video_file = None
    /\ aborted = FALSE
    /\ executed = <<>>
    /\ open_pages = {}
    /\ open_contexts = {}
    /\ ExecIdle
    /\ ParserIdle

NextExec ==
    \/ (ExecCall /\ UNCHANGED <<mainVars, parserVars>>)
    \/ (ExecReset /\ UNCHANGED <<mainVars, parserVars>>)

SpecExec == InitExec /\ [][NextExec]_vars

-----------------------------------------------------------------------------
(* run_test_case up to the end of its pre-processing, on one case whose    *)
(* goto targets and base URL are drawn from URLs and paths of every shape. *)

\* "https://s/p"
HttpsTarget == Http \o <<"s", ":", "/", "/", "s", "/", "p">>
\* "//p"
TwoSlashTarget == <<"/", "/", "p">>

PrepTargets ==
    {AbsTarget, HttpsTarget, RelTarget, TwoSlashTarget, <<"/">>, <<"p">>,
     <<"p", "/">>, <<>>}

PrepSteps ==
    {[action |-> "goto", target |-> t, value |-> <<>>] : t \in PrepTargets}
        \cup {[action |-> "click", target |-> t, value |-> <<>>] :
                  t \in {OneSelector, RelTarget, <<"p">>}}
        \cup {[action |-> "screenshot", name |-> <<"p">>], NoTargetGoto}

PrepSuites == {<<Case(1, q)>> : q \in SeqsUpTo(PrepSteps, MaxSteps)}

\* "", "/", "http://s", "http://s/", "http://s//"
PrepUrls ==
    {<<>>, <<"/">>, SubSeq(SiteUrl, 1, Len(SiteUrl) - 1), SiteUrl,
     SiteUrl \o <<"/">>}

InitPrep ==
    /\ test_cases \in PrepSuites
    /\ base_url \in PrepUrls
    /\ record_video \in BOOLEAN
    /\ pc = "loop"
    /\ ci = 1
    /\ all_results = <<>>
    /\ summary = None
    /\ page = None
    /\ video_context = None
    /\ resolved_steps = <<>>
    /\ idx = 0
    /\ step_results = <<>>
    /\ tc_status = "passed"
    /\ tc_error = None
    /\ interaction_failed = FALSE
    /\ video_file = None
    /\ aborted = FALSE
    /\ executed = <<>>
    /\ open_pages = {}
    /\ open_contexts = {}
    /\ ExecIdle
    /\ ParserIdle

NextPrep ==
    \/ (OpenPage /\ UNCHANGED <<execVars, parserVars>>)
    \/ (OpenPageFails /\ UNCHANGED <<execVars, parserVars>>)
    \/ (Preprocess /\ UNCHANGED <<execVars, parserVars>>)
    \/ (PreprocessFails /\ UNCHANGED <<execVars, parserVars>>)

SpecPrep == InitPrep /\ [][NextPrep]_vars

-----------------------------------------------------------------------------
(* Properties of run_test_case and main, checked under Spec.               *)

NonInteractionActions == {"goto", "wait", "scroll", "screenshot"}

\* the step loop of the running case is over
LoopOver == pc \in {"finally", "video", "return"}

StatusAt(j) == step_results[j].status
ActionAt(j) == Get(resolved_steps[j], "action", "")
Recorded == 1 .. Len(step_results)
Resolved == 1 .. Len(resolved_steps)

\* the step at position j (1-based) was handed to execute_step
Executed(j) == \E e \in 1 .. Len(executed) : executed[e].index = j - 1

FailedAt(j) == j \in Recorded /\ StatusAt(j) = "failed"

CascadeActions == <<"goto", "click", "fill", "assert_visible", "screenshot">>

\* the running case is the example, its goto succeeded, its click failed and
\* its screenshot, if taken, succeeded
CascadeRun ==
    /\ LoopOver
    /\ [j \in Resolved |-> ActionAt(j)] = CascadeActions
    /\ \A e \in 1 .. Len(executed) :
          /\ executed[e].index = 0 => executed[e].status = "passed"
          /\ executed[e].index = 1 => executed[e].status = "failed"
          /\ executed[e].index = 4 => executed[e].status = "passed"

\* C2: for the steps [goto, click, fill, assert_visible, screenshot] with the
\* goto succeeding, the click failing and the screenshot succeeding, the
\* statuses are exactly [passed, failed, skipped, skipped, passed], and the
\* steps executed are the goto, the click and the screenshot.
C2_CascadeExample ==
    CascadeRun =>
        /\ [j \in Recorded |-> StatusAt(j)]
              = <<"passed", "failed", "skipped", "skipped", "passed">>
        /\ [e \in 1 .. Len(executed) |-> executed[e].index] = <<0, 1, 4>>

C2_Witness ==
    /\ CascadeRun
    /\ pc = "return"
    /\ Len(step_results) = 5 /\ StatusAt(5) = "passed" /\ StatusAt(3) = "skipped"

\* C3: no StepResult of a goto, wait, scroll or screenshot step is skipped;
\* each was handed to execute_step, and when the step loop ends without an
\* exception every such step of the case has been, whatever failed before it.
C3_NonInteractionNeverSkipped ==
    /\ \A j \in Recorded :
          ActionAt(j) \in NonInteractionActions
              => (StatusAt(j) # "skipped" /\ Executed(j))
    /\ (LoopOver /\ ~aborted)
          => \A j \in Resolved :
                ActionAt(j) \in NonInteractionActions => Executed(j)

\* a screenshot step is executed after a failed click
C3_Witness ==
    \E i \in Recorded, j \in Recorded :
        /\ i < j /\ FailedAt(i) /\ ActionAt(i) = "click"
        /\ ActionAt(j) = "screenshot" /\ Executed(j)

AnyFailed == \E j \in Recorded : StatusAt(j) = "failed"
AllPassed == \A j \in Recorded : StatusAt(j) = "passed"

\* C4, as stated: the returned status is failed iff some StepResult is
\* failed, and passed iff all are passed, also when an exception cut the
\* step loop short.
C4_FailedIffStepFailed ==
    pc = "return" =>
        /\ CaseResult.status = "failed" <=> AnyFailed
        /\ CaseResult.status = "passed" <=> AllPassed

\* C4, amended: when the step loop ends without an exception the status is
\* failed iff some StepResult is failed and passed iff all are passed; when
\* an exception cut the loop short the status is failed, whether or not a
\* StepResult is failed.
C4_FailedIffStepFailedOrAborted ==
    pc = "return" =>
        /\ CaseResult.status \in {"passed", "failed"}
        /\ aborted => CaseResult.status = "failed"
        /\ ~aborted => /\ CaseResult.status = "failed" <=> AnyFailed
                       /\ CaseResult.status = "passed" <=> AllPassed

\* a case cut short by an exception returns with no failed StepResult
C4_Witness == pc = "return" /\ aborted /\ ~AnyFailed /\ Len(step_results) >= 1

FirstFailed == CHOOSE j \in Recorded : FailedAt(j) /\ \A i \in Recorded : FailedAt(i) => j <= i

\* C5: when a step failed, the case-level error is the error text of the
\* failed StepResult with the smallest index, whatever that text is.
C5_ErrorIsFirstFailure ==
    (pc = "return" /\ AnyFailed) => CaseResult.error = step_results[FirstFailed].error

\* C6: no failure inside a case aborts the run: no exception leaves the main
\* loop, and the finished run has one result per input case, in input order.
C6_RunNeverAborts ==
    /\ pc # "crashed"
    /\ pc = "done" =>
          /\ Len(all_results) = Len(test_cases)
          /\ \A n \in 1 .. Len(all_results) : all_results[n].id = test_cases[n].id

\* C7: in a completed run summary.total = passed + failed + skipped, and
\* total is the number of TestCaseResults.
C7_SummaryTotals ==
    pc = "done" =>
        /\ summary.total = summary.passed + summary.failed + summary.skipped
        /\ summary.total = Len(all_results)

\* a completed run with a passed case and a case cut short by an exception
C7_Witness ==
    /\ pc = "done"
    /\ summary.total >= 2 /\ summary.passed >= 1 /\ summary.failed >= 1
    /\ \E n \in 1 .. Len(all_results) :
          all_results[n].status = "failed" /\ all_results[n].steps = <<>>

\* C9: a case whose step loop was left by an exception returns status failed
\* and a non-null error, and on every exit from the step loop the page of
\* the case is closed before the result is returned.
C9_AbortFailsAndClosesPage ==
    /\ (pc = "return" /\ aborted)
          => (CaseResult.status = "failed" /\ CaseResult.error # None)
    /\ pc \in {"video", "return"} => page \notin open_pages

\* a case whose step loop was left by an exception after at least one
\* recorded step is about to return, its page closed
C9_Witness ==
    /\ pc = "return" /\ aborted
    /\ page \notin open_pages
    /\ Len(step_results) >= 1

\* C10: at most one case page is open at any moment, a page is opened only
\* when no page is open, and every step of the running case was executed on
\* the page of that case.
C10_OnePageAtATime ==
    /\ Cardinality(open_pages) <= 1
    /\ pc = "loop" => open_pages = {}
    /\ pc \in {"prep", "iter", "finally"} => open_pages = {NewPage(ci)}
    /\ pc \in {"iter", "finally", "video", "return"}
          => \A e \in 1 .. Len(executed) : executed[e].page = NewPage(ci)

\* the second case of a suite executes a step on its own page
C10_Witness ==
    /\ ci = 2 /\ pc = "iter"
    /\ executed # <<>>
    /\ open_pages = {NewPage(2)}

-----------------------------------------------------------------------------
(* Properties of execute_step, checked under SpecExec.                     *)

Returned == xpc = "returned"

\* the operations of the call before the failure screenshot
BodyOps == SelectSeq(xret.trace, LAMBDA e : e.op # "fail_screenshot")

RaisedOps == {j \in 1 .. Len(BodyOps) : BodyOps[j].out # Ok}
FirstRaised == CHOOSE j \in RaisedOps : \A i \in RaisedOps : j <= i

XAction == Get(xstep, "action", "")

\* C8, as stated: no error propagates, and whenever an operation of the call
\* raises, the StepResult is failed with the text of the first raised error.
C8_FirstRaisedErrorFails ==
    Returned =>
        /\ xret.raised = None
        /\ RaisedOps # {}
              => /\ xret.result.status = "failed"
                 /\ xret.result.error = BodyOps[FirstRaised].out

ClickOps == {j \in 1 .. Len(BodyOps) : BodyOps[j].op \in {"first.click", "nth.click"}}

\* the first click and every probed neighbour raised, locator.count() did not
NoClickWorked ==
    /\ XAction = "click"
    /\ ClickOps \subseteq RaisedOps
    /\ \E j \in 1 .. Len(BodyOps) : BodyOps[j].op = "count" /\ BodyOps[j].out = Ok

LastRaised == BodyOps # <<>> /\ BodyOps[Len(BodyOps)].out # Ok

AssertionFailed ==
    /\ XAction \in {"assert_text", "assert_url", "assert_title"}
    /\ RaisedOps = {}
    /\ ~xret.oracle.holds

\* C8, amended: no error raised by a browser operation propagates.  An error
\* absorbed by the click probing or by the fill candidate loop does not fail
\* the step.  The step is failed exactly when the first click and every
\* probe raised (error: the first click's), or the last operation attempted
\* before the failure screenshot raised (error: that one's), or an assert
\* statement failed; for every action but click and fill that is the first
\* raised error.  An error of the failure screenshot is swallowed.
C8_UnabsorbedErrorFails ==
    Returned =>
        /\ xret.raised = None
        /\ xret.result.status = "failed"
              <=> (NoClickWorked \/ LastRaised \/ AssertionFailed)
        /\ xret.result.status = "passed"
              <=> ~(NoClickWorked \/ LastRaised \/ AssertionFailed)
        /\ xret.result.error =
              (IF NoClickWorked THEN BodyOps[1].out
               ELSE IF LastRaised THEN BodyOps[Len(BodyOps)].out
               ELSE IF AssertionFailed THEN AssertMsg
               ELSE None)
        /\ (XAction \notin {"click", "fill"} /\ RaisedOps # {})
              => /\ xret.result.status = "failed"
                 /\ xret.result.error = BodyOps[FirstRaised].out

\* a fill whose candidates and fallback all raised, and whose failure
\* screenshot raised too, returns a failed StepResult
C8_Witness ==
    /\ Returned
    /\ XAction = "fill"
    /\ Cardinality(RaisedOps) >= 3
    /\ xret.result.status = "failed"
    /\ xret.trace[Len(xret.trace)].op = "fail_screenshot"
    /\ xret.trace[Len(xret.trace)].out # Ok

-----------------------------------------------------------------------------
(* Properties of the pre-processing of run_test_case.                      *)

\* the steps of the running case as the suite holds them
CaseSteps == Get(CurrentCase, "steps", <<>>)

\* pre-processing of the running case is done
Preprocessed == pc \in {"iter", "finally", "video", "return"}

GotoPositions(steps) ==
    {j \in 1 .. Len(steps) : Get(steps[j], "action", "") = "goto"}

\* C11: after pre-processing, a case without any goto step run with a
\* non-empty base URL has exactly one more resolved step than steps, the
\* added one is goto <base_url> at position 0 and the original steps follow
\* it in their order; a case that has a goto step, or a run with an empty
\* base URL, has as many resolved steps as steps, position by position the
\* same steps up to the targets of goto steps.
C11_ImplicitGoto ==
    Preprocessed =>
        IF GotoPositions(CaseSteps) = {} /\ base_url # <<>>
        THEN /\ Len(resolved_steps) = Len(CaseSteps) + 1
             /\ resolved_steps[1] = [action |-> "goto", target |-> base_url]
             /\ \A j \in 1 .. Len(CaseSteps) : resolved_steps[j + 1] = CaseSteps[j]
        ELSE /\ Len(resolved_steps) = Len(CaseSteps)
             /\ \A j \in 1 .. Len(CaseSteps) :
                   IF j \in GotoPositions(CaseSteps)
                   THEN /\ DOMAIN resolved_steps[j] = DOMAIN CaseSteps[j]
                        /\ \A f \in DOMAIN CaseSteps[j] \ {"target"} :
                              resolved_steps[j][f] = CaseSteps[j][f]
                   ELSE resolved_steps[j] = CaseSteps[j]

\* a case of two steps, none a goto, run with a base URL got the implicit
\* goto
C11_Witness ==
    /\ Preprocessed
    /\ base_url # <<>>
    /\ Len(CaseSteps) = 2
    /\ GotoPositions(CaseSteps) = {}
    /\ Len(resolved_steps) = 3
    /\ resolved_steps[1].action = "goto"

\* u without its trailing slashes is b
WithoutTrailingSlashes(b, u) ==
    \E n \in 0 .. Len(u) :
        /\ b = SubSeq(u, 1, n)
        /\ n > 0 => u[n] # Slash
        /\ \A k \in n + 1 .. Len(u) : u[k] = Slash

\* t without its leading slashes is q
WithoutLeadingSlashes(q, t) ==
    \E n \in 0 .. Len(t) :
        /\ q = SubSeq(t, n + 1, Len(t))
        /\ n < Len(t) => t[n + 1] # Slash
        /\ \A k \in 1 .. n : t[k] = Slash

\* the target begins with the scheme prefix of a full URL
IsAbsolute(t) == Len(t) >= 4 /\ SubSeq(t, 1, 4) = <<"h", "t", "t", "p">>

IsRootRelative(t) == ~IsAbsolute(t) /\ t # <<>> /\ t[1] = Slash

\* r is base_url and the path t with exactly one slash between them
JoinedByOneSlash(r, t) ==
    \E b \in {SubSeq(base_url, 1, n) : n \in 0 .. Len(base_url)},
       q \in {SubSeq(t, n + 1, Len(t)) : n \in 0 .. Len(t)} :
        /\ WithoutTrailingSlashes(b, base_url)
        /\ WithoutLeadingSlashes(q, t)
        /\ r = b \o <<Slash>> \o q

\* r is base_url ending in exactly one slash
IsBaseRoot(r) ==
    /\ r # <<>> /\ r[Len(r)] = Slash
    /\ WithoutTrailingSlashes(SubSeq(r, 1, Len(r) - 1), base_url)

\* the resolved step of the step at position j of the case
ResolvedOf(j) == resolved_steps[j + Len(resolved_steps) - Len(CaseSteps)]

-----------------------------------------------------------------------------
(* Properties of the fill branch of execute_step, checked under SpecExec.  *)

\* the operations of the call on the candidates and on the whole target
FillOps ==
    SelectSeq(xret.trace, LAMBDA e : e.op \in {"wait_for", "fill", "fallback.fill"})

Probes == SelectSeq(FillOps, LAMBDA e : e.op = "wait_for")

Candidates == Selectors(xstep.target)

\* the fill of some candidate returned
CandidateFilled ==
    \E p \in 1 .. Len(FillOps) : FillOps[p].op = "fill" /\ FillOps[p].out = Ok

\* "#a, #b, #c" on a page where only #b exists: the probe of #a, the first
\* operation of the call, raises and nothing else does
OnlySecondExists ==
    /\ xstep.target = ThreeSelectors
    /\ xret.oracle.out[1] # Ok
    /\ \A k \in 2 .. MaxOps : xret.oracle.out[k] = Ok

\* C13: in a fill call the probes are made on the candidates in listed
\* order, one per candidate; a candidate is filled only right after its own
\* probe returned; nothing is tried after a fill that returned; the fill on
\* the whole resolved target is made once, last, exactly when every
\* candidate was tried and none was filled.  With "#a, #b, #c" where only #b
\* exists the step passes and #b is the only selector filled.
C13_FillOrder ==
    (Returned /\ XAction = "fill") =>
        /\ Len(Probes) <= Len(Candidates)
        /\ \A k \in 1 .. Len(Probes) : Probes[k].sel = Candidates[k]
        /\ \A p \in 1 .. Len(FillOps) :
              /\ FillOps[p].op = "fill"
                    => /\ p > 1
                       /\ FillOps[p - 1].op = "wait_for"
                       /\ FillOps[p - 1].out = Ok
                       /\ FillOps[p - 1].sel = FillOps[p].sel
              /\ (FillOps[p].op = "wait_for" /\ FillOps[p].out = Ok)
                    => /\ p < Len(FillOps)
                       /\ FillOps[p + 1].op = "fill"
              /\ (FillOps[p].op = "fill" /\ FillOps[p].out = Ok)
                    => p = Len(FillOps)
              /\ FillOps[p].op = "fallback.fill"
                    => /\ p = Len(FillOps)
                       /\ FillOps[p].sel = SelectorOrText(xstep.target)
                       /\ Len(Probes) = Len(Candidates)
                       /\ ~CandidateFilled
        /\ ~CandidateFilled
              => /\ FillOps # <<>>
                 /\ FillOps[Len(FillOps)].op = "fallback.fill"
        /\ OnlySecondExists
              => /\ xret.result.status = "passed"
                 /\ \A p \in 1 .. Len(FillOps) :
                       /\ FillOps[p].op # "wait_for" => FillOps[p].sel = <<"#", "b">>
                       /\ FillOps[p].sel # <<"#", "c">>

\* the example: the probe of #a raised, #b was probed and filled, the step
\* passed
C13_Witness ==
    /\ Returned /\ XAction = "fill"
    /\ OnlySecondExists
    /\ Len(FillOps) = 3
    /\ FillOps[1].sel = <<"#", "a">> /\ FillOps[1].out # Ok
    /\ FillOps[3].op = "fill" /\ FillOps[3].sel = <<"#", "b">>
    /\ xret.result.status = "passed"

-----------------------------------------------------------------------------
(* parse_docx.py: texts and regular expressions.                           *)
(*                                                                         *)
(* A text is a sequence of characters.  An ASCII character is itself; a    *)
(* character outside ASCII is written by its code point, "U+2192" for the  *)
(* arrow.  A regular expression is a sequence of elements: a literal word, *)
(* an ordered alternation of regular expressions, a repetition of a        *)
(* character class, the two ends of a capturing group, and the anchors.    *)
(* Matching backtracks as the re module does: alternatives in order, a     *)
(* greedy repetition from the longest run down, a lazy one from the        *)
(* shortest up.  Every pattern of parse_docx.py that has letters is        *)
(* compiled with re.I, so letters are compared in lower case.              *)

\* the arrow, U+2192
Arrow == "U+2192"
\* the full-width comma U+FF0C and semicolon U+FF1B
FwComma == "U+FF0C"
FwSemicolon == "U+FF1B"

\* \s and str.strip(): the whitespace of the model is the blank
Whitespace == {" "}
\* \d
Digits == {"0", "1", "2", "3", "4", "5", "6", "7", "8", "9"}

Chars(S) == [neg |-> FALSE, set |-> S]
NotChars(S) == [neg |-> TRUE, set |-> S]
\* . matches every character but the newline
Dot == NotChars({"\n"})

InClass(c, cls) == (c \in cls.set \/ LowerChar(c) \in cls.set) # cls.neg

\* the upper limit of * and +
Unbounded == -1

Lit(w) == <<[t |-> "lit", w |-> w]>>
Alt(branches) == <<[t |-> "alt", alts |-> branches]>>
Words(ws) == Alt([k \in 1 .. Len(ws) |-> Lit(ws[k])])
Rep(cls, lo, hi, greedy) ==
    <<[t |-> "rep", cls |-> cls, lo |-> lo, hi |-> hi, greedy |-> greedy]>>
Group(n, re) == <<[t |-> "open", n |-> n]>> \o re \o <<[t |-> "close", n |-> n]>>
Bol == <<[t |-> "bol"]>>
Eol == <<[t |-> "eol"]>>

\* the numbers of the capturing groups of the patterns
GroupIds == {1, 2}
\* m.group(n) of a group that did not take part in the match
NoGroup == <<None>>

NoMatch == [ok |-> FALSE]
NoGroups == [starts |-> [n \in GroupIds |-> 0], groups |-> [n \in GroupIds |-> NoGroup]]

\* how many characters from position i on are in the class, hi at most
Run(cls, s, i, hi) ==
    LET left == Len(s) - i + 1
        lim == IF hi = Unbounded THEN left ELSE Min(hi, left)
    IN CHOOSE n \in 0 .. lim :
           /\ \A k \in 0 .. n - 1 : InClass(s[i + k], cls)
           /\ n = lim \/ ~InClass(s[i + n], cls)

RECURSIVE MatchAt(_, _, _, _)
RECURSIVE MatchAlt(_, _, _, _, _, _)
RECURSIVE MatchRep(_, _, _, _, _, _, _)

\* the match of re on s from position i, or NoMatch
MatchAt(re, s, i, m) ==
    IF re = <<>> THEN [ok |-> TRUE, end |-> i, groups |-> m.groups]
    ELSE LET e == Head(re)
             rest == Tail(re)
         IN CASE e.t = "lit" ->
                   IF /\ i + Len(e.w) - 1 <= Len(s)
                      /\ \A k \in 1 .. Len(e.w) :
                            LowerChar(s[i + k - 1]) = LowerChar(e.w[k])
                   THEN MatchAt(rest, s, i + Len(e.w), m)
                   ELSE NoMatch
              [] e.t = "alt" -> MatchAlt(e.alts, 1, rest, s, i, m)
              [] e.t = "rep" ->
                   LET run == Run(e.cls, s, i, e.hi)
                   IN IF run < e.lo THEN NoMatch
                      ELSE IF e.greedy THEN MatchRep(rest, s, i, m, run, e.lo, -1)
                      ELSE MatchRep(rest, s, i, m, e.lo, run, 1)
              [] e.t = "open" -> MatchAt(rest, s, i, [m EXCEPT !.starts[e.n] = i])
              [] e.t = "close" ->
                   MatchAt(rest, s, i,
                           [m EXCEPT !.groups[e.n] = SubSeq(s, m.starts[e.n], i - 1)])
              [] e.t = "bol" -> IF i = 1 THEN MatchAt(rest, s, i, m) ELSE NoMatch
              [] e.t = "eol" ->
                   IF i = Len(s) + 1 THEN MatchAt(rest, s, i, m) ELSE NoMatch

\* the alternatives from the k-th on, each followed by the rest
MatchAlt(alts, k, rest, s, i, m) ==
    IF k > Len(alts) THEN NoMatch
    ELSE LET r == MatchAt(alts[k] \o rest, s, i, m)
         IN IF r.ok THEN r ELSE MatchAlt(alts, k + 1, rest, s, i, m)

\* n repetitions, then n + step, ... up to last, each followed by the rest
MatchRep(rest, s, i, m, n, last, step) ==
    LET r == MatchAt(rest, s, i + n, m)
    IN IF r.ok THEN r
       ELSE IF n = last THEN NoMatch
       ELSE MatchRep(rest, s, i, m, n + step, last, step)

\* pattern.match(s)
ReMatch(re, s) == MatchAt(re, s, 1, NoGroups)

\* pattern.search(s): the match at the first position that has one
ReSearch(re, s) ==
    LET at == {i \in 1 .. Len(s) + 1 : MatchAt(re, s, i, NoGroups).ok}
    IN IF at = {} THEN NoMatch
       ELSE MatchAt(re, s, CHOOSE i \in at : \A j \in at : i <= j, NoGroups)

\* pattern.sub("", s) of a pattern anchored at the start
RemoveMatch(re, s) ==
    IF ReMatch(re, s).ok THEN SubSeq(s, ReMatch(re, s).end, Len(s)) ELSE s

\* re.split of a character class: the pieces between the characters of seps
RECURSIVE SplitAnyAcc(_, _, _)
SplitAnyAcc(s, seps, cur) ==
    IF s = <<>> THEN <<cur>>
    ELSE IF s[1] \in seps THEN <<cur>> \o SplitAnyAcc(Tail(s), seps, <<>>)
    ELSE SplitAnyAcc(Tail(s), seps, Append(cur, s[1]))

SplitAny(s, seps) == SplitAnyAcc(s, seps, <<>>)

\* sep.join(parts)
RECURSIVE Join(_, _)
Join(sep, parts) ==
    IF parts = <<>> THEN <<>>
    ELSE IF Len(parts) = 1 THEN parts[1]
    ELSE parts[1] \o sep \o Join(sep, Tail(parts))

\* c in s
Contains(s, c) == \E i \in 1 .. Len(s) : s[i] = c

\* s.replace(c, "")
Without(s, c) == SelectSeq(s, LAMBDA x : x # c)

-----------------------------------------------------------------------------
(* parse_docx.py: _resolve_arrow_chains.                                   *)

\* [,，；;]
Separators == {",", FwComma, FwSemicolon, ";"}

\* ^(點選|點擊|按下|按|點|選按|切換|展開|進入|前往|開啟|瀏覽|到)\s*
ChainVerbRe ==
    Bol \o Group(1, Words(<<<<"U+9EDE", "U+9078">>, <<"U+9EDE", "U+64CA">>,
                            <<"U+6309", "U+4E0B">>, <<"U+6309">>, <<"U+9EDE">>,
                            <<"U+9078", "U+6309">>, <<"U+5207", "U+63DB">>,
                            <<"U+5C55", "U+958B">>, <<"U+9032", "U+5165">>,
                            <<"U+524D", "U+5F80">>, <<"U+958B", "U+555F">>,
                            <<"U+700F", "U+89BD">>, <<"U+5230">>>>))
        \o Rep(Chars(Whitespace), 0, Unbounded, TRUE)

\* 點選, the verb of a chain that names none
DefaultVerb == <<"U+9EDE", "U+9078">>

\* [p.strip() for p in fragment.split("→") if p.strip()]
ArrowParts(fragment) ==
    LET parts == Split(fragment, Arrow)
    IN SelectSeq([k \in 1 .. Len(parts) |-> Strip(parts[k])], LAMBDA q : q # <<>>)

\* variant: a fragment of fewer than two parts is kept as it is
ResolveFragmentKeep(fragment) ==
    IF ~Contains(fragment, Arrow) THEN fragment
    ELSE LET arrow_parts == ArrowParts(fragment)
             last == arrow_parts[Len(arrow_parts)]
             verb_match == ReMatch(ChainVerbRe, arrow_parts[1])
         IN IF Len(arrow_parts) < 2 THEN fragment
            ELSE IF verb_match.ok THEN verb_match.groups[1] \o last
            ELSE DefaultVerb \o last

\* the body of the loop: what a stripped fragment adds to result_parts
ResolveFragment(fragment) ==
    IF ~Contains(fragment, Arrow) THEN fragment
    ELSE LET arrow_parts == ArrowParts(fragment)
             last == arrow_parts[Len(arrow_parts)]
             verb_match == ReMatch(ChainVerbRe, arrow_parts[1])
         IN IF Len(arrow_parts) < 2 THEN Without(fragment, Arrow)
            ELSE IF verb_match.ok THEN verb_match.groups[1] \o last
            ELSE DefaultVerb \o last

\* variant: the fragments that resolve to nothing are left out
ResolveArrowChainsDropEmpty(text) ==
    IF ~Contains(text, Arrow) THEN text
    ELSE LET fragments == SplitAny(text, Separators)
             result_parts ==
                 [k \in 1 .. Len(fragments) |-> ResolveFragment(Strip(fragments[k]))]
         IN Join(<<FwComma>>, SelectSeq(result_parts, LAMBDA q : q # <<>>))

\* _resolve_arrow_chains
ResolveArrowChains(text) ==
    IF ~Contains(text, Arrow) THEN text
    ELSE LET fragments == SplitAny(text, Separators)
             result_parts ==
                 [k \in 1 .. Len(fragments) |-> ResolveFragment(Strip(fragments[k]))]
         IN Join(<<FwComma>>, result_parts)

\* the characters of the texts given to _resolve_arrow_chains: the arrow,
\* the four separators, the blank, a letter, and 點 and 選 of the verbs
ChainAlphabet ==
    {Arrow, ",", FwComma, ";", FwSemicolon, " ", "x", "U+9EDE", "U+9078"}

\* characters of a generated text
MaxChars == 4

ChainTexts == SeqsUpTo(ChainAlphabet, MaxChars)

\* processed = _resolve_arrow_chains(steps_raw)
ChainCall ==
    /\ fpc = "idle"
    /\ \E text \in ChainTexts :
          /\ farg' = text
          /\ fret' = ResolveArrowChains(text)
    /\ fpc' = "returned"
    /\ UNCHANGED <<step_action_patterns, history>>

\* the harness is ready for another call
ParserReset ==
    /\ fpc = "returned"
    /\ fpc' = "idle"
    /\ farg' = <<>>
    /\ fret' = <<>>
    /\ UNCHANGED <<step_action_patterns, history>>

\* the runner is not started: no suite, no page
RunnerIdle ==
    /\ test_cases = <<>>
    /\ base_url = <<>>
    /\ record_video = FALSE
    /\ pc = "exec"
    /\ ci = 1
    /\ all_results = <<>>
    /\ summary = None
    /\ page = None
    /\ video_context = None
    /\ resolved_steps = <<>>
    /\ idx = 0
    /\ step_results = <<>>
    /\ tc_status = "passed"
    /\ tc_error = None
    /\ interaction_failed = FALSE
    /\ video_file = None
    /\ aborted = FALSE
    /\ executed = <<>>
    /\ open_pages = {}
    /\ open_contexts = {}
    /\ ExecIdle

InitChain == RunnerIdle /\ ParserIdle

NextChain ==
    \/ (ChainCall /\ UNCHANGED <<mainVars, execVars>>)
    \/ (ParserReset /\ UNCHANGED <<mainVars, execVars>>)

SpecChain == InitChain /\ [][NextChain]_vars

-----------------------------------------------------------------------------
(* Properties of _resolve_arrow_chains, checked under SpecChain.           *)

ChainReturned == fpc = "returned"

\* C16: the text _resolve_arrow_chains returns has no arrow in it.
C16_NoArrowLeft ==
    ChainReturned => \A i \in 1 .. Len(fret) : fret[i] # Arrow

\* a text of a lone arrow, a separator and a chain of two parts was resolved
C16_Witness ==
    /\ ChainReturned
    /\ farg = <<Arrow, ",", "x", Arrow>>
    /\ fret = <<FwComma, "x">>

\* the number of pieces between the separators of s
FragmentCount(s) == 1 + Cardinality({i \in 1 .. Len(s) : s[i] \in Separators})

\* C17: the text _resolve_arrow_chains returns has as many separated
\* fragments as the text it was given.
C17_FragmentCountKept ==
    ChainReturned => FragmentCount(fret) = FragmentCount(farg)

\* three fragments, one a lone arrow that resolves to nothing and one empty:
\* three fragments returned
C17_Witness ==
    /\ ChainReturned
    /\ farg = <<Arrow, ";", "x", ",">>
    /\ FragmentCount(fret) = 3

-----------------------------------------------------------------------------
(* parse_docx.py: the rule table and infer_step.                           *)

\* \s*, \s+, (.+), (.+?) and (.*) without their groups
Ws0 == Rep(Chars(Whitespace), 0, Unbounded, TRUE)
Ws1 == Rep(Chars(Whitespace), 1, Unbounded, TRUE)
Any1 == Rep(Dot, 1, Unbounded, TRUE)
Lazy1 == Rep(Dot, 1, Unbounded, FALSE)
Any0 == Rep(Dot, 0, Unbounded, TRUE)

\* one (pattern, action) pair of the table
Rule(re, action) == [re |-> re, action |-> action]

\* _STEP_ACTION_PATTERNS as the module defines it
StepActionPatterns ==
    <<
      \* ^(?:navigate|go\s*to)\s+(.+)
      Rule(Bol \o Alt(<<Lit(<<"n", "a", "v", "i", "g", "a", "t", "e">>),
          Lit(<<"g", "o">>) \o Ws0 \o Lit(<<"t", "o">>)>>) \o Ws1 \o Group(1,
          Any1), "goto"),
      \* ^(?:開啟|前往|瀏覽|進入|連到|連至|造訪|訪問|到)\s*(.+)
      Rule(Bol \o Words(<<<<"U+958B", "U+555F">>, <<"U+524D", "U+5F80">>,
          <<"U+700F", "U+89BD">>, <<"U+9032", "U+5165">>, <<"U+9023",
          "U+5230">>, <<"U+9023", "U+81F3">>, <<"U+9020", "U+8A2A">>,
          <<"U+8A2A", "U+554F">>, <<"U+5230">>>>) \o Ws0 \o Group(1, Any1),
          "goto"),
      \* ^(?:click)\s+(.+)
      Rule(Bol \o Words(<<<<"c", "l", "i", "c", "k">>>>) \o Ws1 \o Group(1,
          Any1), "click"),
      \* ^(?:按下|點擊|點選|按|點|選按|勾選|展開|收合|切換|按鈕)\s*(.+)
      Rule(Bol \o Words(<<<<"U+6309", "U+4E0B">>, <<"U+9EDE", "U+64CA">>,
          <<"U+9EDE", "U+9078">>, <<"U+6309">>, <<"U+9EDE">>, <<"U+9078",
          "U+6309">>, <<"U+52FE", "U+9078">>, <<"U+5C55", "U+958B">>,
          <<"U+6536", "U+5408">>, <<"U+5207", "U+63DB">>, <<"U+6309",
          "U+9215">>>>) \o Ws0 \o Group(1, Any1), "click"),
      \* ^(?:type|enter|input|fill)\s+[\"']?(.+?)[\"']?\s+(?:in(?:to)?)\s+(.+)
      Rule(Bol \o Words(<<<<"t", "y", "p", "e">>, <<"e", "n", "t", "e", "r">>
          , <<"i", "n", "p", "u", "t">>, <<"f", "i", "l", "l">>>>) \o Ws1 \o
          Rep(Chars({"\"", "'"}), 0, 1, TRUE) \o Group(1, Lazy1) \o
          Rep(Chars({"\"", "'"}), 0, 1, TRUE) \o Ws1 \o Alt(<<Lit(<<"i",
          "n">>) \o Alt(<<Lit(<<"t", "o">>), <<>>>>)>>) \o Ws1 \o Group(2,
          Any1), "fill"),
      \* ^(?:輸入|填入|填寫|鍵入)\s*[「「\"']?(.+?)[」」\"']?\s*(?:於|到|在|至)\s*(.+)
      Rule(Bol \o Words(<<<<"U+8F38", "U+5165">>, <<"U+586B", "U+5165">>,
          <<"U+586B", "U+5BEB">>, <<"U+9375", "U+5165">>>>) \o Ws0 \o
          Rep(Chars({"U+300C", "\"", "'"}), 0, 1, TRUE) \o Group(1, Lazy1) \o
          Rep(Chars({"U+300D", "\"", "'"}), 0, 1, TRUE) \o Ws0 \o
          Words(<<<<"U+65BC">>, <<"U+5230">>, <<"U+5728">>, <<"U+81F3">>>>)
          \o Ws0 \o Group(2, Any1), "fill"),
      \* ^(?:輸入|填入|填寫|鍵入)\s*[「「\"']?(.+?)[」」\"']?\s*(?:關鍵字|搜尋|查詢|字串)
      Rule(Bol \o Words(<<<<"U+8F38", "U+5165">>, <<"U+586B", "U+5165">>,
          <<"U+586B", "U+5BEB">>, <<"U+9375", "U+5165">>>>) \o Ws0 \o
          Rep(Chars({"U+300C", "\"", "'"}), 0, 1, TRUE) \o Group(1, Lazy1) \o
          Rep(Chars({"U+300D", "\"", "'"}), 0, 1, TRUE) \o Ws0 \o
          Words(<<<<"U+95DC", "U+9375", "U+5B57">>, <<"U+641C", "U+5C0B">>,
          <<"U+67E5", "U+8A62">>, <<"U+5B57", "U+4E32">>>>), "fill_search"),
      \* ^(?:select)\s+[\"']?(.+?)[\"']?\s+(?:from|in)\s+(.+)
      Rule(Bol \o Words(<<<<"s", "e", "l", "e", "c", "t">>>>) \o Ws1 \o
          Rep(Chars({"\"", "'"}), 0, 1, TRUE) \o Group(1, Lazy1) \o
          Rep(Chars({"\"", "'"}), 0, 1, TRUE) \o Ws1 \o Words(<<<<"f", "r",
          "o", "m">>, <<"i", "n">>>>) \o Ws1 \o Group(2, Any1), "select"),
      \* ^(?:選擇|選取|下拉選)\s*[「「\"']?(.+?)[」」\"']?\s*(?:於|在|從)\s*(.+)
      Rule(Bol \o Words(<<<<"U+9078", "U+64C7">>, <<"U+9078", "U+53D6">>,
          <<"U+4E0B", "U+62C9", "U+9078">>>>) \o Ws0 \o Rep(Chars({"U+300C",
          "\"", "'"}), 0, 1, TRUE) \o Group(1, Lazy1) \o Rep(Chars({"U+300D",
          "\"", "'"}), 0, 1, TRUE) \o Ws0 \o Words(<<<<"U+65BC">>,
          <<"U+5728">>, <<"U+5F9E">>>>) \o Ws0 \o Group(2, Any1), "select"),
      \* ^(?:hover)\s+(.+)
      Rule(Bol \o Words(<<<<"h", "o", "v", "e", "r">>>>) \o Ws1 \o Group(1,
          Any1), "hover"),
      \* ^(?:滑鼠移至|移至|移到|懸停)\s*(.+)
      Rule(Bol \o Words(<<<<"U+6ED1", "U+9F20", "U+79FB", "U+81F3">>,
          <<"U+79FB", "U+81F3">>, <<"U+79FB", "U+5230">>, <<"U+61F8",
          "U+505C">>>>) \o Ws0 \o Group(1, Any1), "hover"),
      \* ^(?:verify|assert|check)\s+(.+?)\s+(?:is\s+visible|appears?)
      Rule(Bol \o Words(<<<<"v", "e", "r", "i", "f", "y">>, <<"a", "s", "s",
          "e", "r", "t">>, <<"c", "h", "e", "c", "k">>>>) \o Ws1 \o Group(1,
          Lazy1) \o Ws1 \o Alt(<<Lit(<<"i", "s">>) \o Ws1 \o Lit(<<"v", "i",
          "s", "i", "b", "l", "e">>), Lit(<<"a", "p", "p", "e", "a", "r">>)
          \o Rep(Chars({"s"}), 0, 1, TRUE)>>), "assert_visible"),
      \* ^(?:確認|驗證|確保|檢查)\s*(.+?)\s*(?:可見|存在|出現|顯示|呈現)
      Rule(Bol \o Words(<<<<"U+78BA", "U+8A8D">>, <<"U+9A57", "U+8B49">>,
          <<"U+78BA", "U+4FDD">>, <<"U+6AA2", "U+67E5">>>>) \o Ws0 \o Group(1
          , Lazy1) \o Ws0 \o Words(<<<<"U+53EF", "U+898B">>, <<"U+5B58",
          "U+5728">>, <<"U+51FA", "U+73FE">>, <<"U+986F", "U+793A">>,
          <<"U+5448", "U+73FE">>>>), "assert_visible"),
      \* ^(?:verify|assert|check|確認|驗證)\s*(?:url|網址|連結)\s*(?:is|contains?|包含|為)?\s*(.+)
      Rule(Bol \o Words(<<<<"v", "e", "r", "i", "f", "y">>, <<"a", "s", "s",
          "e", "r", "t">>, <<"c", "h", "e", "c", "k">>, <<"U+78BA", "U+8A8D">>
          , <<"U+9A57", "U+8B49">>>>) \o Ws0 \o Words(<<<<"u", "r", "l">>,
          <<"U+7DB2", "U+5740">>, <<"U+9023", "U+7D50">>>>) \o Ws0 \o
          Alt(<<Lit(<<"i", "s">>), Lit(<<"c", "o", "n", "t", "a", "i", "n">>)
          \o Rep(Chars({"s"}), 0, 1, TRUE), Lit(<<"U+5305", "U+542B">>),
          Lit(<<"U+70BA">>), <<>>>>) \o Ws0 \o Group(1, Any1), "assert_url"),
      \* ^(?:verify|assert|check|確認|驗證)\s*(?:文字|text|內容)\s*(?:is|contains?|包含|為)?\s*(.+)
      Rule(Bol \o Words(<<<<"v", "e", "r", "i", "f", "y">>, <<"a", "s", "s",
          "e", "r", "t">>, <<"c", "h", "e", "c", "k">>, <<"U+78BA", "U+8A8D">>
          , <<"U+9A57", "U+8B49">>>>) \o Ws0 \o Words(<<<<"U+6587", "U+5B57">>
          , <<"t", "e", "x", "t">>, <<"U+5167", "U+5BB9">>>>) \o Ws0 \o
          Alt(<<Lit(<<"i", "s">>), Lit(<<"c", "o", "n", "t", "a", "i", "n">>)
          \o Rep(Chars({"s"}), 0, 1, TRUE), Lit(<<"U+5305", "U+542B">>),
          Lit(<<"U+70BA">>), <<>>>>) \o Ws0 \o Group(1, Any1), "assert_text"),
      \* ^(?:wait|等待)\s*(\d+)
      Rule(Bol \o Words(<<<<"w", "a", "i", "t">>, <<"U+7B49", "U+5F85">>>>)
          \o Ws0 \o Group(1, Rep(Chars(Digits), 1, Unbounded, TRUE)), "wait"),
      \* ^(?:screenshot|截圖|擷圖|截取畫面)\s*(.*)
      Rule(Bol \o Words(<<<<"s", "c", "r", "e", "e", "n", "s", "h", "o", "t">>
          , <<"U+622A", "U+5716">>, <<"U+64F7", "U+5716">>, <<"U+622A",
          "U+53D6", "U+756B", "U+9762">>>>) \o Ws0 \o Group(1, Any0),
          "screenshot"),
      \* ^(?:scroll|捲動|滾動|向下捲)\s*(.*)
      Rule(Bol \o Words(<<<<"s", "c", "r", "o", "l", "l">>, <<"U+6372",
          "U+52D5">>, <<"U+6EFE", "U+52D5">>, <<"U+5411", "U+4E0B",
          "U+6372">>>>) \o Ws0 \o Group(1, Any0), "scroll")
    >>

\* _ZH_GOTO_VERBS = ^(?:進入|開啟|前往|瀏覽|連到|連至|造訪|訪問|查看|檢視|打開)
ZhGotoVerbs ==
    Bol \o Words(<<<<"U+9032", "U+5165">>, <<"U+958B", "U+555F">>, <<"U+524D"
        , "U+5F80">>, <<"U+700F", "U+89BD">>, <<"U+9023", "U+5230">>,
        <<"U+9023", "U+81F3">>, <<"U+9020", "U+8A2A">>, <<"U+8A2A", "U+554F">>
        , <<"U+67E5", "U+770B">>, <<"U+6AA2", "U+8996">>, <<"U+6253",
        "U+958B">>>>)

\* _ZH_CLICK_VERBS = ^(?:點選|點擊|按下|按|點|選按|勾選|展開|收合|切換)
ZhClickVerbs ==
    Bol \o Words(<<<<"U+9EDE", "U+9078">>, <<"U+9EDE", "U+64CA">>, <<"U+6309"
        , "U+4E0B">>, <<"U+6309">>, <<"U+9EDE">>, <<"U+9078", "U+6309">>,
        <<"U+52FE", "U+9078">>, <<"U+5C55", "U+958B">>, <<"U+6536", "U+5408">>
        , <<"U+5207", "U+63DB">>>>)

\* _ZH_FILL_VERBS = ^(?:輸入|填入|填寫|鍵入)
ZhFillVerbs ==
    Bol \o Words(<<<<"U+8F38", "U+5165">>, <<"U+586B", "U+5165">>, <<"U+586B"
        , "U+5BEB">>, <<"U+9375", "U+5165">>>>)

\* _ZH_ASSERT_VERBS = ^(?:確認|驗證|確保|檢查)
ZhAssertVerbs ==
    Bol \o Words(<<<<"U+78BA", "U+8A8D">>, <<"U+9A57", "U+8B49">>, <<"U+78BA"
        , "U+4FDD">>, <<"U+6AA2", "U+67E5">>>>)

\* _ZH_BROWSE_KEYWORDS = (?:使用|利用|透過|以).*(?:開啟|瀏覽|檢視|查看|進入)
ZhBrowseKeywords ==
    Words(<<<<"U+4F7F", "U+7528">>, <<"U+5229", "U+7528">>, <<"U+900F",
        "U+904E">>, <<"U+4EE5">>>>) \o Any0 \o Words(<<<<"U+958B", "U+555F">>
        , <<"U+700F", "U+89BD">>, <<"U+6AA2", "U+8996">>, <<"U+67E5",
        "U+770B">>, <<"U+9032", "U+5165">>>>)

\* the leading marker infer_step strips: ^(?:步驟|step)\s*\d*[.、:：]?\s*
StepMarkerRe ==
    Bol \o Words(<<<<"U+6B65", "U+9A5F">>, <<"s", "t", "e", "p">>>>) \o Ws0
        \o Rep(Chars(Digits), 0, Unbounded, TRUE) \o Rep(Chars({".", "U+3001"
        , ":", "U+FF1A"}), 0, 1, TRUE) \o Ws0

\* the quoted value of the fill family: [「「\"'](.+?)[」」\"']
QuotedRe ==
    Rep(Chars({"U+300C", "\"", "'"}), 1, 1, TRUE) \o Group(1, Lazy1) \o
        Rep(Chars({"U+300D", "\"", "'"}), 1, 1, TRUE)

\* _SEARCH_INPUT_SELECTORS
SearchInputSelectors ==
    <<"i", "n", "p", "u", "t", "[", "n", "a", "m", "e", "*", "=", "k", "e",
        "y", "w", "o", "r", "d", "]", ",", " ", "i", "n", "p", "u", "t", "[",
        "n", "a", "m", "e", "*", "=", "K", "e", "y", "w", "o", "r", "d", "]",
        ",", " ", "i", "n", "p", "u", "t", "[", "p", "l", "a", "c", "e", "h",
        "o", "l", "d", "e", "r", "*", "=", "U+6AA2", "U+7D22", "]", ",", " ",
        "i", "n", "p", "u", "t", "[", "p", "l", "a", "c", "e", "h", "o", "l",
        "d", "e", "r", "*", "=", "U+641C", "U+5C0B", "]", ",", " ", "i", "n",
        "p", "u", "t", "[", "p", "l", "a", "c", "e", "h", "o", "l", "d", "e",
        "r", "*", "=", "U+67E5", "U+8A62", "]", ",", " ", "i", "n", "p", "u",
        "t", ".", "u", "i", "-", "a", "u", "t", "o", "c", "o", "m", "p", "l",
        "e", "t", "e", "-", "i", "n", "p", "u", "t", ",", " ", "i", "n", "p",
        "u", "t", "[", "t", "y", "p", "e", "=", "s", "e", "a", "r", "c", "h",
        "]", ",", " ", "i", "n", "p", "u", "t", "[", "n", "a", "m", "e", "*",
        "=", "s", "e", "a", "r", "c", "h", "]", ",", " ", "i", "n", "p", "u",
        "t", "[", "n", "a", "m", "e", "*", "=", "q", "u", "e", "r", "y", "]",
        ",", " ", "#", "s", "e", "a", "r", "c", "h", ",", " ", ".", "s", "e",
        "a", "r", "c", "h", "-", "i", "n", "p", "u", "t">>

\* the number of capturing groups of a pattern: len(m.groups())
RECURSIVE GroupCount(_)
GroupCount(re) ==
    IF re = <<>> THEN 0
    ELSE (CASE Head(re).t = "open" -> 1
            [] Head(re).t = "alt" -> GroupCount(Join(<<>>, Head(re).alts))
            [] OTHER -> 0)
         + GroupCount(Tail(re))

\* m.groups()
Groups(re, m) == [k \in 1 .. GroupCount(re) |-> m.groups[k]]

\* str.strip(chars)
RECURSIVE StripChars(_, _)
StripChars(s, cs) ==
    IF s # <<>> /\ s[1] \in cs THEN StripChars(Tail(s), cs)
    ELSE IF s # <<>> /\ s[Len(s)] \in cs THEN StripChars(SubSeq(s, 1, Len(s) - 1), cs)
    ELSE s

\* s[:n]
Prefix(s, n) == SubSeq(s, 1, Min(Len(s), n))

\* the quotes 「 」 " '
QuoteChars == {"U+300C", "U+300D", "\"", "'"}

\* the characters of the model that \w does not match: ASCII punctuation and
\* blank, the arrow, and the full-width ， ； 「 」 、 ： 。
NonWordChars ==
    {" ", "\n", ",", ";", ".", ":", "'", "\"", "#", "/", "-", "=", "[", "]",
     "(", ")", "*", "|", "+", "<", ">", "?", "!", Arrow, FwComma, FwSemicolon,
     "U+300C", "U+300D", "U+3001", "U+FF1A", "U+3002"}

\* re.sub(r'[^\w]', '_', s)
Sanitize(s) == [i \in 1 .. Len(s) |-> IF s[i] \in NonWordChars THEN "_" ELSE s[i]]

\* "body", "input[type=text]", "500", "blank_step"
Body == <<"b", "o", "d", "y">>
TextInput ==
    <<"i", "n", "p", "u", "t", "[", "t", "y", "p", "e", "=", "t", "e", "x", "t", "]">>
DefaultScroll == <<"5", "0", "0">>
BlankStepName == <<"b", "l", "a", "n", "k", "_", "s", "t", "e", "p">>

BlankStep == [action |-> "screenshot", name |-> BlankStepName]

\* the text the rules are matched on: stripped, the leading marker removed,
\* arrow chains resolved
PrepareText(raw) ==
    LET text == Strip(RemoveMatch(StepMarkerRe, Strip(raw)))
    IN IF Contains(text, Arrow) THEN ResolveArrowChains(text) ELSE text

\* the step built from the match of a rule
StepOfRule(action, groups, text) ==
    IF action = "fill" /\ Len(groups) >= 2
    THEN [action |-> action, target |-> Strip(groups[2]), value |-> Strip(groups[1])]
    ELSE IF action = "fill_search"
    THEN [action |-> "fill", target |-> SearchInputSelectors,
          value |-> StripChars(Strip(groups[1]), QuoteChars)]
    ELSE IF action = "select" /\ Len(groups) >= 2
    THEN [action |-> action, target |-> Strip(groups[2]), value |-> Strip(groups[1])]
    ELSE IF action = "wait"
    THEN [action |-> action, target |-> Strip(groups[1])]
    ELSE IF action = "scroll"
    THEN [action |-> action,
          target |-> IF Strip(groups[1]) # <<>> THEN Strip(groups[1]) ELSE DefaultScroll]
    ELSE [action |-> action,
          target |-> IF groups # <<>> THEN Strip(groups[1]) ELSE text]

\* variant: text that nothing recognizes is an error
FallbackRaises(text) == [raised |-> "ValueError"]

\* the screenshot-only step of unrecognized text
Fallback(text) == [action |-> "screenshot", name |-> Sanitize(Prefix(text, 40))]

\* the second pass: the broad verb families, then the fallback
SecondPass(text) ==
    IF ReSearch(ZhGotoVerbs, text).ok
    THEN [action |-> "goto", target |-> <<Slash>>]
    ELSE IF ReSearch(ZhBrowseKeywords, text).ok
    THEN [action |-> "goto", target |-> <<Slash>>]
    ELSE IF ReSearch(ZhClickVerbs, text).ok
    THEN LET remainder == Strip(RemoveMatch(ZhClickVerbs, text))
         IN [action |-> "click",
             target |-> IF remainder # <<>> THEN TextPrefix \o remainder ELSE Body]
    ELSE IF ReSearch(ZhFillVerbs, text).ok
    THEN LET remainder == Strip(RemoveMatch(ZhFillVerbs, text))
             qm == ReSearch(QuotedRe, remainder)
         IN IF qm.ok
            THEN [action |-> "fill", target |-> SearchInputSelectors,
                  value |-> qm.groups[1]]
            ELSE [action |-> "fill", target |-> TextInput, value |-> remainder]
    ELSE IF ReSearch(ZhAssertVerbs, text).ok
    THEN LET remainder == Strip(RemoveMatch(ZhAssertVerbs, text))
         IN [action |-> "assert_visible",
             target |-> IF remainder # <<>> THEN TextPrefix \o Prefix(remainder, 60)
                        ELSE Body]
    ELSE Fallback(text)

\* variant: the last rule that matches wins
RECURSIVE FirstRuleLatest(_, _, _)
FirstRuleLatest(patterns, k, text) ==
    IF k > Len(patterns) THEN 0
    ELSE LET later == FirstRuleLatest(patterns, k + 1, text)
         IN IF later > 0 THEN later
            ELSE IF ReMatch(patterns[k].re, text).ok THEN k ELSE 0

\* the position of the first rule from the k-th on that matches, 0 if none
RECURSIVE FirstRule(_, _, _)
FirstRule(patterns, k, text) ==
    IF k > Len(patterns) THEN 0
    ELSE IF ReMatch(patterns[k].re, text).ok THEN k
    ELSE FirstRule(patterns, k + 1, text)

\* infer_step, reading the rule table patterns
InferStep(raw, patterns) ==
    LET text == PrepareText(raw)
        k == FirstRule(patterns, 1, text)
    IN IF Strip(RemoveMatch(StepMarkerRe, Strip(raw))) = <<>> THEN BlankStep
       ELSE IF k > 0
       THEN StepOfRule(patterns[k].action,
                       Groups(patterns[k].re, ReMatch(patterns[k].re, text)), text)
       ELSE SecondPass(text)

\* variant: a call uses up the first rule of the table
PatternsAfterCallPopped(patterns) == Tail(patterns)

\* the rule table after a call: infer_step only iterates over it
PatternsAfterCall(patterns) == patterns

\* texts of steps as documents have them, one or more for every rule, verb
\* family and fallback
InferSamples ==
    {
      \* navigate /home
      <<"n", "a", "v", "i", "g", "a", "t", "e", " ", "/", "h", "o", "m", "e">>,
      \* go to x
      <<"g", "o", " ", "t", "o", " ", "x">>,
      \* Go  To x
      <<"G", "o", " ", " ", "T", "o", " ", "x">>,
      \* 開啟首頁
      <<"U+958B", "U+555F", "U+9996", "U+9801">>,
      \* 到x
      <<"U+5230", "x">>,
      \* click x
      <<"c", "l", "i", "c", "k", " ", "x">>,
      \* Click #a
      <<"C", "l", "i", "c", "k", " ", "#", "a">>,
      \* 點選搜尋
      <<"U+9EDE", "U+9078", "U+641C", "U+5C0B">>,
      \* 按鈕x
      <<"U+6309", "U+9215", "x">>,
      \* type x in #q
      <<"t", "y", "p", "e", " ", "x", " ", "i", "n", " ", "#", "q">>,
      \* enter 'x' into y
      <<"e", "n", "t", "e", "r", " ", "'", "x", "'", " ", "i", "n", "t", "o",
          " ", "y">>,
      \* 輸入x於y
      <<"U+8F38", "U+5165", "x", "U+65BC", "y">>,
      \* 輸入「x」關鍵字
      <<"U+8F38", "U+5165", "U+300C", "x", "U+300D", "U+95DC", "U+9375",
          "U+5B57">>,
      \* 填入x查詢
      <<"U+586B", "U+5165", "x", "U+67E5", "U+8A62">>,
      \* select x from y
      <<"s", "e", "l", "e", "c", "t", " ", "x", " ", "f", "r", "o", "m", " ",
          "y">>,
      \* 選擇x於y
      <<"U+9078", "U+64C7", "x", "U+65BC", "y">>,
      \* hover x
      <<"h", "o", "v", "e", "r", " ", "x">>,
      \* 移至x
      <<"U+79FB", "U+81F3", "x">>,
      \* verify x is visible
      <<"v", "e", "r", "i", "f", "y", " ", "x", " ", "i", "s", " ", "v", "i",
          "s", "i", "b", "l", "e">>,
      \* check x appears
      <<"c", "h", "e", "c", "k", " ", "x", " ", "a", "p", "p", "e", "a", "r",
          "s">>,
      \* 確認x可見
      <<"U+78BA", "U+8A8D", "x", "U+53EF", "U+898B">>,
      \* verify url contains /p
      <<"v", "e", "r", "i", "f", "y", " ", "u", "r", "l", " ", "c", "o", "n",
          "t", "a", "i", "n", "s", " ", "/", "p">>,
      \* 確認網址包含x
      <<"U+78BA", "U+8A8D", "U+7DB2", "U+5740", "U+5305", "U+542B", "x">>,
      \* verify text x
      <<"v", "e", "r", "i", "f", "y", " ", "t", "e", "x", "t", " ", "x">>,
      \* assert text is x
      <<"a", "s", "s", "e", "r", "t", " ", "t", "e", "x", "t", " ", "i", "s",
          " ", "x">>,
      \* 驗證文字x
      <<"U+9A57", "U+8B49", "U+6587", "U+5B57", "x">>,
      \* wait 5
      <<"w", "a", "i", "t", " ", "5">>,
      \* 等待3
      <<"U+7B49", "U+5F85", "3">>,
      \* wait x
      <<"w", "a", "i", "t", " ", "x">>,
      \* screenshot
      <<"s", "c", "r", "e", "e", "n", "s", "h", "o", "t">>,
      \* 截圖x
      <<"U+622A", "U+5716", "x">>,
      \* scroll
      <<"s", "c", "r", "o", "l", "l">>,
      \* scroll 300
      <<"s", "c", "r", "o", "l", "l", " ", "3", "0", "0">>,
      \* 捲動
      <<"U+6372", "U+52D5">>,
      \* 查看x
      <<"U+67E5", "U+770B", "x">>,
      \* 打開
      <<"U+6253", "U+958B">>,
      \* 使用x檢視y
      <<"U+4F7F", "U+7528", "x", "U+6AA2", "U+8996", "y">>,
      \* 點選
      <<"U+9EDE", "U+9078">>,
      \* 輸入x
      <<"U+8F38", "U+5165", "x">>,
      \* 輸入「x」
      <<"U+8F38", "U+5165", "U+300C", "x", "U+300D">>,
      \* 確認x
      <<"U+78BA", "U+8A8D", "x">>,
      \* 確認
      <<"U+78BA", "U+8A8D">>,
      \* x
      <<"x">>,
      \* hello world
      <<"h", "e", "l", "l", "o", " ", "w", "o", "r", "l", "d">>,
      \* x→y
      <<"x", "U+2192", "y">>,
      \* 點選x→y
      <<"U+9EDE", "U+9078", "x", "U+2192", "y">>,
      \* 進入x → y，點選z
      <<"U+9032", "U+5165", "x", " ", "U+2192", " ", "y", "U+FF0C", "U+9EDE",
          "U+9078", "z">>,
      \* 步驟1. click x
      <<"U+6B65", "U+9A5F", "1", ".", " ", "c", "l", "i", "c", "k", " ", "x">>,
      \* step 2: x
      <<"s", "t", "e", "p", " ", "2", ":", " ", "x">>,
      \* 步驟1
      <<"U+6B65", "U+9A5F", "1">>,
      \* Step
      <<"S", "t", "e", "p">>,
      \* →
      <<"U+2192">>,
      \* " "
      <<" ">>,
      \* ""
      <<>>,
      \* verify text x is visible
      <<"v", "e", "r", "i", "f", "y", " ", "t", "e", "x", "t", " ", "x", " ",
          "i", "s", " ", "v", "i", "s", "i", "b", "l", "e">>,
      \* click 輸入x於y
      <<"c", "l", "i", "c", "k", " ", "U+8F38", "U+5165", "x", "U+65BC", "y">>,
      \* go to click x
      <<"g", "o", " ", "t", "o", " ", "c", "l", "i", "c", "k", " ", "x">>
    }

\* the pieces the other texts are put together from: the blank, a letter,
\* click, 點選, the arrow, 輸入, the quotes 「 and 」, 關鍵字, 確認, 可見 and the
\* full-width comma
InferPieces ==
    {<<" ">>,
     <<"x">>,
     <<"c", "l", "i", "c", "k">>,
     <<"U+9EDE", "U+9078">>,
     <<"U+2192">>,
     <<"U+8F38", "U+5165">>,
     <<"U+300C">>,
     <<"U+300D">>,
     <<"U+95DC", "U+9375", "U+5B57">>,
     <<"U+78BA", "U+8A8D">>,
     <<"U+53EF", "U+898B">>,
     <<"U+FF0C">>}

\* pieces of a generated text
MaxPieces == 3

RECURSIVE ConcatsUpTo(_, _)
ConcatsUpTo(P, n) ==
    IF n = 0 THEN {<<>>}
    ELSE LET shorter == ConcatsUpTo(P, n - 1)
         IN shorter \cup {q \o x : q \in shorter, x \in P}

InferTexts == InferSamples \cup ConcatsUpTo(InferPieces, MaxPieces)

\* parse_docx.py is loaded: the rule table is built, no call made yet
ParserLoaded ==
    /\ fpc = "idle"
    /\ farg = <<>>
    /\ fret = <<>>
    /\ step_action_patterns = StepActionPatterns
    /\ history = <<>>

\* step = infer_step(raw)
InferCall ==
    /\ fpc = "idle"
    /\ \E raw \in InferTexts :
          /\ farg' = raw
          /\ fret' = InferStep(raw, step_action_patterns)
    /\ fpc' = "returned"
    /\ step_action_patterns' = PatternsAfterCall(step_action_patterns)
    /\ UNCHANGED history

InitInfer == RunnerIdle /\ ParserLoaded

NextInfer ==
    \/ (InferCall /\ UNCHANGED <<mainVars, execVars>>)
    \/ (ParserReset /\ UNCHANGED <<mainVars, execVars>>)

SpecInfer == InitInfer /\ [][NextInfer]_vars

-----------------------------------------------------------------------------
(* Properties of infer_step, checked under SpecInfer.                      *)

InferReturned == fpc = "returned"

\* the keys of a Step that infer_step builds
StepShapes == {{"action", "target"}, {"action", "target", "value"}, {"action", "name"}}

\* some explicit rule matches the prepared text of the call
SomeRuleMatches ==
    \E k \in 1 .. Len(StepActionPatterns) :
        ReMatch(StepActionPatterns[k].re, PrepareText(farg)).ok

\* some verb family is found in the prepared text of the call
SomeFamilyFound ==
    \E re \in {ZhGotoVerbs, ZhBrowseKeywords, ZhClickVerbs, ZhFillVerbs, ZhAssertVerbs} :
        ReSearch(re, PrepareText(farg)).ok

\* C14: whatever the text, infer_step returns a Step (no error): a record of
\* an action of the Step contract with a target, a target and a value, or a
\* name; a text matching no explicit rule and no verb family gives a
\* screenshot Step.
C14_AlwaysAStep ==
    InferReturned =>
        /\ DOMAIN fret \in StepShapes
        /\ fret.action \in Actions
        /\ (~SomeRuleMatches /\ ~SomeFamilyFound)
              => /\ fret.action = "screenshot"
                 /\ DOMAIN fret = {"action", "name"}

\* a text with an arrow and a separator that no rule and no family
\* recognizes came back as a screenshot Step
C14_Witness ==
    /\ InferReturned
    /\ farg = <<"x", Arrow, FwComma>>
    /\ ~SomeRuleMatches /\ ~SomeFamilyFound
    /\ fret.action = "screenshot"

-----------------------------------------------------------------------------
(* infer_step called again and again in one process.                       *)

\* calls of one history
MaxCalls == 2

\* the texts of the repeated calls: the short ones of the samples
HistoryTexts == {t \in InferSamples : Len(t) <= 3}

\* one more infer_step(raw); the history keeps what it was given and what
\* it returned
InferAgain ==
    /\ Len(history) < MaxCalls
    /\ \E raw \in HistoryTexts :
          history' = Append(history,
                            [raw |-> raw, step |-> InferStep(raw, step_action_patterns)])
    /\ step_action_patterns' = PatternsAfterCall(step_action_patterns)
    /\ UNCHANGED <<fpc, farg, fret>>

NextHistory == InferAgain /\ UNCHANGED <<mainVars, execVars>>

SpecHistory == InitInfer /\ [][NextHistory]_vars

-----------------------------------------------------------------------------
(* parse_docx.py: the record extractor. A document is the sequence of its  *)
(* lines, md.splitlines(); a test case is a record of id, name,            *)
(* description, steps and expected_result.                                 *)

DigitChars == <<"0", "1", "2", "3", "4", "5", "6", "7", "8", "9">>

\* str(n)
RECURSIVE FormatInt(_)
FormatInt(n) ==
    IF n < 10 THEN <<DigitChars[n + 1]>>
    ELSE FormatInt(n \div 10) \o <<DigitChars[(n % 10) + 1]>>

\* int(s) of a text of digits
RECURSIVE ParseInt(_)
ParseInt(s) ==
    IF s = <<>> THEN 0
    ELSE 10 * ParseInt(SubSeq(s, 1, Len(s) - 1))
         + (CHOOSE d \in 0 .. 9 : DigitChars[d + 1] = s[Len(s)])

\* f"{n:03d}"
Pad3(n) ==
    LET d == FormatInt(n)
    IN [k \in 1 .. 3 - Len(d) |-> "0"] \o d

\* f"TC-{n:03d}"
TcId(n) == <<"T", "C", "-">> \o Pad3(n)

\* the first step given to a case that has none
RootGoto == [action |-> "goto", target |-> <<Slash>>]

\* infer_step of every part that is not blank, stripped
RECURSIVE InferParts(_, _)
InferParts(parts, patterns) ==
    IF parts = <<>> THEN <<>>
    ELSE IF Strip(Head(parts)) = <<>> THEN InferParts(Tail(parts), patterns)
    ELSE <<InferStep(Strip(Head(parts)), patterns)>> \o InferParts(Tail(parts), patterns)

-----------------------------------------------------------------------------
(* _parse_table_cases: the Markdown pipe table.                            *)

\* ^[-:]+$
SeparatorCellRe == Bol \o Rep(Chars({"-", ":"}), 1, Unbounded, TRUE) \o Eol

\* the header names of the columns: id 編號, name "test case" 名稱 測試案例,
\* steps 步驟 step, expected "expected result" 預期結果
IdHeaders == <<<<"i", "d">>, <<"U+7DE8", "U+865F">>>>
NameHeaders ==
    <<<<"n", "a", "m", "e">>, <<"t", "e", "s", "t", " ", "c", "a", "s", "e">>,
      <<"U+540D", "U+7A31">>, <<"U+6E2C", "U+8A66", "U+6848", "U+4F8B">>>>
StepsHeaders ==
    <<<<"s", "t", "e", "p", "s">>, <<"U+6B65", "U+9A5F">>, <<"s", "t", "e", "p">>>>
ExpectedHeaders ==
    <<<<"e", "x", "p", "e", "c", "t", "e", "d">>,
      <<"e", "x", "p", "e", "c", "t", "e", "d", " ", "r", "e", "s", "u", "l", "t">>,
      <<"U+9810", "U+671F", "U+7D50", "U+679C">>>>

\* the characters that end a step inside a table cell: ; newline 。 ；
CellStepSeparators == {";", "\n", "U+3002", FwSemicolon}

\* [c.strip() for c in line.strip("|").split("|")]
Cells(line) ==
    LET parts == SplitAny(StripChars(line, {"|"}), {"|"})
    IN [k \in 1 .. Len(parts) |-> Strip(parts[k])]

\* all(re.match(r"^[-:]+$", c) for c in cells if c)
IsSeparatorRow(cells) ==
    \A k \in 1 .. Len(cells) :
        cells[k] # <<>> => ReMatch(SeparatorCellRe, cells[k]).ok

\* dict(zip(headers, cells)).get(key, default): of two columns with one
\* header the later one is kept
RowGet(headers, cells, key, default) ==
    LET at == {k \in 1 .. Min(Len(headers), Len(cells)) : headers[k] = key}
    IN IF at = {} THEN default
       ELSE cells[CHOOSE k \in at : \A j \in at : j <= k]

\* row.get(k1, row.get(k2, ... "")) of the header names keys
RECURSIVE RowGetAny(_, _, _)
RowGetAny(headers, cells, keys) ==
    IF keys = <<>> THEN <<>>
    ELSE RowGet(headers, cells, Head(keys), RowGetAny(headers, cells, Tail(keys)))

\* step_list if step_list else [{"action": "goto", "target": "/"}]
StepsOrRoot(step_list) == IF step_list # <<>> THEN step_list ELSE <<RootGoto>>

\* id_val or f"TC-{tc_counter:03d}"
IdOrCounter(id_val, n) == IF id_val # <<>> THEN id_val ELSE TcId(n)

\* the case of a data row, the n-th of the table
TableCase(headers, cells, n, patterns) ==
    [id |-> IdOrCounter(RowGetAny(headers, cells, IdHeaders), n),
     name |-> RowGetAny(headers, cells, NameHeaders),
     description |-> <<>>,
     steps |-> StepsOrRoot(InferParts(SplitAny(RowGetAny(headers, cells, StepsHeaders),
                                               CellStepSeparators), patterns)),
     expected_result |-> RowGetAny(headers, cells, ExpectedHeaders)]

\* the loop of _parse_table_cases from the k-th line on
RECURSIVE TableRows(_, _, _, _, _, _)
TableRows(lines, k, in_table, headers, cases, patterns) ==
    IF k > Len(lines) THEN cases
    ELSE LET line == Strip(lines[k])
             cells == Cells(line)
         IN IF ~StartsWith(line, <<"|">>)
            THEN IF in_table THEN cases
                 ELSE TableRows(lines, k + 1, in_table, headers, cases, patterns)
            ELSE IF IsSeparatorRow(cells)
            THEN TableRows(lines, k + 1, in_table, headers, cases, patterns)
            ELSE IF ~in_table
            THEN TableRows(lines, k + 1, TRUE,
                           [j \in 1 .. Len(cells) |-> Lower(cells[j])], cases, patterns)
            ELSE IF RowGetAny(headers, cells, NameHeaders) = <<>>
            THEN TableRows(lines, k + 1, in_table, headers, cases, patterns)
            ELSE TableRows(lines, k + 1, in_table, headers,
                           Append(cases, TableCase(headers, cells, Len(cases) + 1, patterns)),
                           patterns)

\* _parse_table_cases(lines)
ParseTableCases(lines, patterns) == TableRows(lines, 1, FALSE, <<>>, <<>>, patterns)

-----------------------------------------------------------------------------
(* _parse_grid_table_cases: the pandoc grid table.                         *)

\* ^\+[=\-]+
GridBorderRe == Bol \o Lit(<<"+">>) \o Rep(Chars({"=", "-"}), 1, Unbounded, TRUE)
\* \*\*(.+?)\*\*
BoldRe == Lit(<<"*", "*">>) \o Group(1, Lazy1) \o Lit(<<"*", "*">>)
\* 個案編號|項目序|測試目標|測試紀錄
GridHeaderRe ==
    Words(<<<<"U+500B", "U+6848", "U+7DE8", "U+865F">>, <<"U+9805", "U+76EE", "U+5E8F">>,
            <<"U+6E2C", "U+8A66", "U+76EE", "U+6A19">>,
            <<"U+6E2C", "U+8A66", "U+7D00", "U+9304">>>>)
\* ^\d+
SeqNumberRe == Bol \o Rep(Chars(Digits), 1, Unbounded, TRUE)

FinalSuffix == <<"_", "f", "i", "n", "a", "l">>

\* the position where pattern.search(s) matches; only asked when it does
SearchStart(re, s) ==
    CHOOSE i \in 1 .. Len(s) + 1 :
        /\ MatchAt(re, s, i, NoGroups).ok
        /\ \A j \in 1 .. i - 1 : ~MatchAt(re, s, j, NoGroups).ok

\* re.sub(r"\*\*(.+?)\*\*", r"\1", s)
RECURSIVE RemoveBold(_)
RemoveBold(s) ==
    LET m == ReSearch(BoldRe, s)
    IN IF ~m.ok THEN s
       ELSE SubSeq(s, 1, SearchStart(BoldRe, s) - 1) \o m.groups[1]
            \o RemoveBold(SubSeq(s, m.end, Len(s)))

\* the loop that collects the row blocks, from the k-th line on
RECURSIVE GridBlocks(_, _, _, _, _)
GridBlocks(lines, k, row_blocks, current, in_grid) ==
    LET closed == IF current # <<>> THEN Append(row_blocks, current) ELSE row_blocks
    IN IF k > Len(lines) THEN closed
       ELSE IF ReMatch(GridBorderRe, lines[k]).ok
       THEN GridBlocks(lines, k + 1, closed, <<>>, TRUE)
       ELSE IF in_grid /\ StartsWith(lines[k], <<"|">>)
       THEN GridBlocks(lines, k + 1, row_blocks, Append(current, lines[k]), in_grid)
       ELSE IF in_grid /\ ~StartsWith(lines[k], <<"+">>)
       THEN GridBlocks(lines, k + 1, closed, <<>>, FALSE)
       ELSE GridBlocks(lines, k + 1, row_blocks, current, in_grid)

\* flatten_cell_lines(cell_lines)
FlattenCellLines(cell_lines) ==
    LET kept == SelectSeq(cell_lines, LAMBDA l : Strip(l) # <<>>)
    IN Strip(RemoveBold(Join(<<" ">>, [k \in 1 .. Len(kept) |-> Strip(kept[k])])))

\* l.strip("|").split("|")
RawCells(l) == SplitAny(StripChars(l, {"|"}), {"|"})

\* the texts of column i, one of each line of the row that has the column
RECURSIVE ColumnTexts(_, _)
ColumnTexts(row_lines, i) ==
    IF row_lines = <<>> THEN <<>>
    ELSE LET parts == RawCells(Head(row_lines))
         IN (IF i <= Len(parts) THEN <<Strip(parts[i])>> ELSE <<>>)
            \o ColumnTexts(Tail(row_lines), i)

\* extract_row_cells(row_lines): the columns are those of the first line
ExtractRowCells(row_lines) ==
    IF row_lines = <<>> THEN <<>>
    ELSE [i \in 1 .. Len(RawCells(row_lines[1])) |->
              FlattenCellLines(ColumnTexts(row_lines, i))]

\* any(st.get("action") == "goto" for st in step_list)
AnyGoto(step_list) == \E k \in 1 .. Len(step_list) : step_list[k].action = "goto"

\* variant: the steps of a row are taken as inferred
GridStepsAsInferred(steps_raw, n, patterns) ==
    InferParts(SplitAny(ResolveArrowChains(steps_raw), Separators), patterns)
    \o <<[action |-> "screenshot", name |-> TcId(n) \o FinalSuffix]>>

\* step_list after the insert of goto "/" at position 0 when it has no goto
WithGoto(step_list) == (IF AnyGoto(step_list) THEN <<>> ELSE <<RootGoto>>) \o step_list

\* the steps of the n-th case: the inferred ones, a goto "/" before them
\* when they have none, and the final screenshot
GridSteps(steps_raw, n, patterns) ==
    WithGoto(InferParts(SplitAny(ResolveArrowChains(steps_raw), Separators), patterns))
    \o <<[action |-> "screenshot", name |-> TcId(n) \o FinalSuffix]>>

\* cells[i] if len(cells) > i else ""
Cell(cells, i) == IF Len(cells) >= i THEN cells[i] ELSE <<>>

\* the row is a data row: it has two cells or more, its first cell has no
\* word of the header rows and begins with digits, and it has a name
IsDataRow(cells) ==
    /\ Len(cells) >= 2
    /\ ~ReSearch(GridHeaderRe, Strip(cells[1])).ok
    /\ cells[2] # <<>>
    /\ ReMatch(SeqNumberRe, Strip(cells[1])).ok

\* the case of a data row, the n-th case of the table
GridCase(cells, n, patterns) ==
    [id |-> TcId(n),
     name |-> cells[2],
     description |-> Cell(cells, 3),
     steps |-> GridSteps(Cell(cells, 3), n, patterns),
     expected_result |-> Cell(cells, 4)]

\* cases after the row of these cells
CasesWithRow(cases, cells, patterns) ==
    IF IsDataRow(cells) THEN Append(cases, GridCase(cells, Len(cases) + 1, patterns))
    ELSE cases

\* the loop over the row blocks from the k-th on
RECURSIVE GridRows(_, _, _, _)
GridRows(row_blocks, k, cases, patterns) ==
    IF k > Len(row_blocks) THEN cases
    ELSE GridRows(row_blocks, k + 1,
                  CasesWithRow(cases, ExtractRowCells(row_blocks[k]), patterns), patterns)

\* _parse_grid_table_cases(md)
ParseGridTableCases(lines, patterns) ==
    GridRows(GridBlocks(lines, 1, <<>>, <<>>, FALSE), 1, <<>>, patterns)

-----------------------------------------------------------------------------
(* parse_markdown_to_cases: the meta block, the three strategies in their  *)
(* order, and the exploratory case.                                        *)

\* ^#{1,4}\s*(?:TC[-\s]?(\d+)[:\s]?\s*)?(.+)$
TcHeaderRe ==
    Bol \o Rep(Chars({"#"}), 1, 4, TRUE) \o Ws0
    \o Alt(<<Lit(<<"T", "C">>) \o Rep(Chars({"-"} \cup Whitespace), 0, 1, TRUE)
             \o Group(1, Rep(Chars(Digits), 1, Unbounded, TRUE))
             \o Rep(Chars({":"} \cup Whitespace), 0, 1, TRUE) \o Ws0, <<>>>>)
    \o Group(2, Any1) \o Eol
\* TC|test case|測試|案例
TcWordRe ==
    Words(<<<<"T", "C">>, <<"t", "e", "s", "t", " ", "c", "a", "s", "e">>,
            <<"U+6E2C", "U+8A66">>, <<"U+6848", "U+4F8B">>>>)
\* ^\d+[\.\)]\s+(.+)
NumberedStepRe ==
    Bol \o Rep(Chars(Digits), 1, Unbounded, TRUE) \o Rep(Chars({".", ")"}), 1, 1, TRUE)
    \o Ws1 \o Group(1, Any1)
\* ^[-*]\s+(.+)
BulletStepRe == Bol \o Rep(Chars({"-", "*"}), 1, 1, TRUE) \o Ws1 \o Group(1, Any1)
\* (?:expected|預期結果|期望|result|verify|驗證)[\s:：]+(.+)
ExpectedRe ==
    Words(<<<<"e", "x", "p", "e", "c", "t", "e", "d">>,
            <<"U+9810", "U+671F", "U+7D50", "U+679C">>, <<"U+671F", "U+671B">>,
            <<"r", "e", "s", "u", "l", "t">>, <<"v", "e", "r", "i", "f", "y">>,
            <<"U+9A57", "U+8B49">>>>)
    \o Rep(Chars({":", "U+FF1A"} \cup Whitespace), 1, Unbounded, TRUE) \o Group(1, Any1)
\* https?://[^\s\"'>]+ ; the texts of the model spell http in lower case
UrlRe ==
    Lit(<<"h", "t", "t", "p">>) \o Rep(Chars({"s"}), 0, 1, TRUE) \o Lit(<<":", "/", "/">>)
    \o Rep(NotChars({"\"", "'", ">"} \cup Whitespace), 1, Unbounded, TRUE)
\* (?:URL|base.?url|網址|網站)
UrlWordRe ==
    Alt(<<Lit(<<"U", "R", "L">>),
          Lit(<<"b", "a", "s", "e">>) \o Rep(Dot, 0, 1, TRUE) \o Lit(<<"u", "r", "l">>),
          Lit(<<"U+7DB2", "U+5740">>), Lit(<<"U+7DB2", "U+7AD9">>)>>)

\* the lines the meta block is looked for in
MetaLines == 20

\* _URL_RE.findall(line)[0]; only asked when there is one
FirstUrl(line) ==
    SubSeq(line, SearchStart(UrlRe, line), ReSearch(UrlRe, line).end - 1)

\* meta["base_url"] after the meta loop over the lines from the k-th on: the
\* argument, or else the first URL of a line that names a URL
RECURSIVE MetaBaseUrl(_, _, _)
MetaBaseUrl(lines, k, url) ==
    IF k > Min(Len(lines), MetaLines) THEN url
    ELSE IF /\ ReSearch(UrlWordRe, lines[k]).ok
            /\ ReSearch(UrlRe, lines[k]).ok
            /\ url = <<>>
    THEN MetaBaseUrl(lines, k + 1, FirstUrl(lines[k]))
    ELSE MetaBaseUrl(lines, k + 1, url)

\* the case a header line opens, the n-th header of the document
SectionCase(h_match, n) ==
    LET tc_num == IF h_match.groups[1] # NoGroup /\ h_match.groups[1] # <<>>
                  THEN h_match.groups[1] ELSE FormatInt(n)
    IN [id |-> TcId(ParseInt(tc_num)),
        name |-> Strip(h_match.groups[2]),
        description |-> <<>>,
        steps |-> <<>>,
        expected_result |-> <<>>]

\* current_case is None
NoCase == <<>>

\* the cases found, with current_case saved when it has steps; current_case is
\* NoCase or the one-element sequence of the open case
Saved(found, current_case) ==
    IF current_case # NoCase /\ current_case[1].steps # <<>>
    THEN Append(found, current_case[1])
    ELSE found

\* the section loop from the k-th line on, and the save after it
RECURSIVE SectionRows(_, _, _, _, _, _)
SectionRows(lines, k, current_case, tc_counter, found, patterns) ==
    IF k > Len(lines) THEN Saved(found, current_case)
    ELSE LET line == lines[k]
             h_match == ReMatch(TcHeaderRe, line)
             numbered == ReMatch(NumberedStepRe, line)
             s_match == IF numbered.ok THEN numbered ELSE ReMatch(BulletStepRe, line)
             step_text == Strip(s_match.groups[1])
             exp_m == ReSearch(ExpectedRe, line)
         IN IF h_match.ok /\ ReSearch(TcWordRe, line).ok
            THEN SectionRows(lines, k + 1, <<SectionCase(h_match, tc_counter + 1)>>,
                             tc_counter + 1, Saved(found, current_case), patterns)
            ELSE IF current_case = NoCase
            THEN SectionRows(lines, k + 1, current_case, tc_counter, found, patterns)
            ELSE IF s_match.ok
            THEN IF ReMatch(ExpectedRe, step_text).ok
                 THEN SectionRows(lines, k + 1,
                                  [current_case EXCEPT ![1].expected_result =
                                      Strip(ReMatch(ExpectedRe, step_text).groups[1])],
                                  tc_counter, found, patterns)
                 ELSE SectionRows(lines, k + 1,
                                  [current_case EXCEPT ![1].steps =
                                      Append(@, InferStep(step_text, patterns))],
                                  tc_counter, found, patterns)
            ELSE IF exp_m.ok /\ ~StartsWith(line, <<"#">>)
            THEN SectionRows(lines, k + 1,
                             [current_case EXCEPT ![1].expected_result = Strip(exp_m.groups[1])],
                             tc_counter, found, patterns)
            ELSE SectionRows(lines, k + 1, current_case, tc_counter, found, patterns)

\* the cases of the section strategy
ParseSectionCases(lines, patterns) == SectionRows(lines, 1, NoCase, 0, <<>>, patterns)

ExploratoryName ==
    <<"E", "x", "p", "l", "o", "r", "a", "t", "o", "r", "y", " ", "T", "e", "s", "t">>
ExploratoryDescription ==
    <<"P", "a", "r", "s", "e", "d", " ", "f", "r", "o", "m", " ", "u", "n", "s", "t",
      "r", "u", "c", "t", "u", "r", "e", "d", " ", "W", "o", "r", "d", " ", "d", "o",
      "c", "u", "m", "e", "n", "t", " ", "U+2014", " ", "p", "l", "e", "a", "s", "e",
      " ", "e", "d", "i", "t", " ", "s", "t", "e", "p", "s", " ", "m", "a", "n", "u",
      "a", "l", "l", "y">>
ExploratoryExpected ==
    <<"P", "a", "g", "e", " ", "l", "o", "a", "d", "s", " ", "w", "i", "t", "h", "o",
      "u", "t", " ", "e", "r", "r", "o", "r", "s">>
HomeName == <<"h", "o", "m", "e">>

\* variant: a document without cases gives no case
ExploratoryCasesNone(url) == <<>>

\* the single case of a document no strategy found a case in; url is
\* meta["base_url"], a key meta always has
ExploratoryCases(url) ==
    <<[id |-> TcId(1),
       name |-> ExploratoryName,
       description |-> ExploratoryDescription,
       steps |-> <<[action |-> "goto", target |-> url],
                   [action |-> "screenshot", name |-> HomeName]>>,
       expected_result |-> ExploratoryExpected]>>

\* the payload returned: the cases of the first strategy that found some,
\* or else the exploratory case; of meta the model keeps base_url, the one
\* field the cases depend on
Payload(meta_base_url, table_cases, grid_cases, section_cases) ==
    [meta |-> [base_url |-> meta_base_url],
     test_cases |-> IF table_cases # <<>> THEN table_cases
                    ELSE IF grid_cases # <<>> THEN grid_cases
                    ELSE IF section_cases # <<>> THEN section_cases
                    ELSE ExploratoryCases(meta_base_url)]

\* parse_markdown_to_cases(md, base_url)
ParseMarkdownToCases(lines, url, patterns) ==
    Payload(MetaBaseUrl(lines, 1, url),
            ParseTableCases(lines, patterns),
            ParseGridTableCases(lines, patterns),
            ParseSectionCases(lines, patterns))

-----------------------------------------------------------------------------
(* parse_markdown_to_cases and _parse_grid_table_cases called on documents. *)

\* the header row of a pipe table: | name | steps |
PipeHeader ==
    <<"|", " ", "n", "a", "m", "e", " ", "|", " ", "s", "t", "e", "p", "s", " ", "|">>
\* its separator row: |---|---|
PipeSeparator == <<"|", "-", "-", "-", "|", "-", "-", "-", "|">>
\* a data row of it: | login | click x |
PipeRow ==
    <<"|", " ", "l", "o", "g", "i", "n", " ", "|", " ", "c", "l", "i", "c", "k", " ",
      "x", " ", "|">>
\* the border line of a grid table: +---+---+
GridBorder == <<"+", "-", "-", "-", "+", "-", "-", "-", "+">>
\* a grid row whose steps are an arrow chain without a goto: | 1 | open | 點選a→b |
GridRow ==
    <<"|", " ", "1", " ", "|", " ", "o", "p", "e", "n", " ", "|", " ",
      "U+9EDE", "U+9078", "a", Arrow, "b", " ", "|">>
\* a grid row whose step is a goto: | 2 | home | 進入x |
GridGotoRow ==
    <<"|", " ", "2", " ", "|", " ", "h", "o", "m", "e", " ", "|", " ",
      "U+9032", "U+5165", "x", " ", "|">>
\* the header of a section case: # TC-7 login
CaseHeader == <<"#", " ", "T", "C", "-", "7", " ", "l", "o", "g", "i", "n">>
\* a numbered step: 1. click x
StepLine == <<"1", ".", " ", "c", "l", "i", "c", "k", " ", "x">>
\* a line that names a URL: url http://s/
UrlLine == <<"u", "r", "l", " ", "h", "t", "t", "p", ":", "/", "/", "s", "/">>
\* a line of prose: hello
Prose == <<"h", "e", "l", "l", "o">>

DocLines ==
    {PipeHeader, PipeSeparator, PipeRow, GridBorder, GridRow, GridGotoRow,
     CaseHeader, StepLine, UrlLine, Prose}

\* a pipe table, a grid table of two rows, a section case, and single lines
PipeTable == <<PipeHeader, PipeSeparator, PipeRow>>
GridTable == <<GridBorder, GridRow, GridBorder, GridGotoRow, GridBorder>>
Section == <<CaseHeader, StepLine>>
DocBlocks == {PipeTable, GridTable, Section, <<UrlLine>>, <<Prose>>}

\* lines of a document put together line by line
MaxLines == 3
\* blocks of a document put together block by block
MaxBlocks == 3

\* headings of section cases, with a number and without: # TC-2 a, # TC b
SecondHeader == <<"#", " ", "T", "C", "-", "2", " ", "a">>
PlainHeader == <<"#", " ", "T", "C", " ", "b">>

\* section cases whose ids are given and generated
IdBlocks == {<<SecondHeader, StepLine>>, <<PlainHeader, StepLine>>}

Docs ==
    SeqsUpTo(DocLines, MaxLines) \cup ConcatsUpTo(DocBlocks, MaxBlocks)
        \cup ConcatsUpTo(IdBlocks, MaxBlocks)

\* the base_url argument: not given, or http://b
BaseUrlGiven == <<"h", "t", "t", "p", ":", "/", "/", "b">>
BaseUrlArgs == {<<>>, BaseUrlGiven}

\* payload = parse_markdown_to_cases(md, base_url)
ParseCall ==
    /\ fpc = "idle"
    /\ \E md \in Docs, url \in BaseUrlArgs :
          /\ farg' = [fn |-> "parse_markdown_to_cases", md |-> md, base_url |-> url]
          /\ fret' = ParseMarkdownToCases(md, url, step_action_patterns)
    /\ fpc' = "returned"
    /\ step_action_patterns' = PatternsAfterCall(step_action_patterns)
    /\ UNCHANGED history

\* cases = _parse_grid_table_cases(md)
GridCall ==
    /\ fpc = "idle"
    /\ \E md \in Docs :
          /\ farg' = [fn |-> "_parse_grid_table_cases", md |-> md]
          /\ fret' = ParseGridTableCases(md, step_action_patterns)
    /\ fpc' = "returned"
    /\ step_action_patterns' = PatternsAfterCall(step_action_patterns)
    /\ UNCHANGED history

NextParse ==
    \/ (ParseCall /\ UNCHANGED <<mainVars, execVars>>)
    \/ (GridCall /\ UNCHANGED <<mainVars, execVars>>)
    \/ (ParserReset /\ UNCHANGED <<mainVars, execVars>>)

SpecParse == InitInfer /\ [][NextParse]_vars

ParseReturned == fpc = "returned" /\ farg.fn = "parse_markdown_to_cases"
GridReturned == fpc = "returned" /\ farg.fn = "_parse_grid_table_cases"

\* a line of a pipe table, a border line of a grid table
IsPipeLine(l) == StartsWith(Strip(l), <<"|">>)
IsBorderLine(l) == ReMatch(GridBorderRe, l).ok

\* lines i to j of the document are a pipe table of test cases: all its lines
\* are table lines, the lines next to it are neither table lines nor border
\* lines, and read alone it has a case
PipeTableAt(d, i, j) ==
    /\ \A k \in i .. j : IsPipeLine(d[k])
    /\ i > 1 => ~IsPipeLine(d[i - 1]) /\ ~StartsWith(d[i - 1], <<"+">>)
    /\ j < Len(d) => ~IsPipeLine(d[j + 1]) /\ ~StartsWith(d[j + 1], <<"+">>)
    /\ ParseTableCases(SubSeq(d, i, j), StepActionPatterns) # <<>>

HasPipeTable(d) == \E i \in 1 .. Len(d) : \E j \in i .. Len(d) : PipeTableAt(d, i, j)
HasGridMarkup(d) == \E k \in 1 .. Len(d) : IsBorderLine(d[k])

\* C18: when the document has both a pipe table of test cases and grid-table
\* markup, in either order, the returned cases are those of the pipe-table
\* strategy, and there are some: the grid-table and the section strategy
\* give none of them.
C18_PipeTableWins ==
    (ParseReturned /\ HasPipeTable(farg.md) /\ HasGridMarkup(farg.md))
        => /\ fret.test_cases # <<>>
           /\ fret.test_cases = ParseTableCases(farg.md, StepActionPatterns)

\* the steps inferred from the steps text of a grid row
InferredOf(steps_raw) ==
    InferParts(SplitAny(ResolveArrowChains(steps_raw), Separators), StepActionPatterns)

\* C19: every case _parse_grid_table_cases returns has a goto step and a
\* screenshot as its last step; when the steps inferred from its row have no
\* goto, its steps are goto "/", the inferred steps, and the screenshot.
C19_GotoAndFinalScreenshot ==
    GridReturned =>
        \A k \in 1 .. Len(fret) :
            LET steps == fret[k].steps
                inferred == InferredOf(fret[k].description)
            IN /\ \E j \in 1 .. Len(steps) : steps[j].action = "goto"
               /\ steps[Len(steps)].action = "screenshot"
               /\ ~AnyGoto(inferred)
                     => /\ steps[1] = RootGoto
                        /\ SubSeq(steps, 2, Len(steps) - 1) = inferred

\* the grid table of two rows gave two cases: the first, inferred as one
\* click, begins with goto "/"; the second keeps its own goto first; both
\* end with the screenshot
C19_Witness ==
    /\ GridReturned
    /\ farg.md = GridTable
    /\ Len(fret) = 2
    /\ ~AnyGoto(InferredOf(fret[1].description))
    /\ Len(fret[1].steps) = 3
    /\ fret[1].steps[1] = RootGoto
    /\ fret[1].steps[2].action = "click"
    /\ fret[1].steps[3].action = "screenshot"
    /\ Len(fret[2].steps) = 2
    /\ fret[2].steps[1].action = "goto"
    /\ fret[2].steps[1] # RootGoto
    /\ fret[2].steps[2].action = "screenshot"

\* no strategy finds a case in the document
NothingFound(d) ==
    /\ ParseTableCases(d, StepActionPatterns) = <<>>
    /\ ParseGridTableCases(d, StepActionPatterns) = <<>>
    /\ ParseSectionCases(d, StepActionPatterns) = <<>>

\* C20: parse_markdown_to_cases never returns an empty list of cases; when
\* no strategy finds a case it returns one case, named Exploratory Test,
\* whose steps are a goto to the base URL of the returned meta, which is the
\* base_url argument when one is given, and a screenshot.
C20_ExploratoryFallback ==
    ParseReturned =>
        /\ fret.test_cases # <<>>
        /\ NothingFound(farg.md)
              => /\ Len(fret.test_cases) = 1
                 /\ fret.test_cases[1].name = ExploratoryName
                 /\ Len(fret.test_cases[1].steps) = 2
                 /\ fret.test_cases[1].steps[1]
                       = [action |-> "goto", target |-> fret.meta.base_url]
                 /\ farg.base_url # <<>>
                       => fret.test_cases[1].steps[1].target = farg.base_url
                 /\ fret.test_cases[1].steps[2].action = "screenshot"

\* a document of one line of prose, parsed with base_url http://b, came back
\* as the exploratory case with a goto to http://b
C20_Witness ==
    /\ ParseReturned
    /\ farg.md = <<Prose>>
    /\ farg.base_url = BaseUrlGiven
    /\ NothingFound(farg.md)
    /\ Len(fret.test_cases) = 1
    /\ fret.test_cases[1].name = ExploratoryName
    /\ fret.test_cases[1].steps[1] = [action |-> "goto", target |-> BaseUrlGiven]

-----------------------------------------------------------------------------
(* The whole run, to its end: main over a finite suite when every browser  *)
(* operation returns or raises, so that the interpreter always takes its   *)
(* next step.                                                              *)

\* the cascading-skip case, and the suites of up to MaxCases one-step cases
LiveSuites ==
    {<<Case(1, CascadeSteps)>>}
        \cup {[n \in 1 .. Len(q) |-> Case(n, <<q[n]>>)] :
                 q \in SeqsUpTo(SuiteSteps, MaxCases)}

InitLive == Init /\ test_cases \in LiveSuites

\* no call blocks for ever: a step that can be taken is eventually taken
SpecLive == InitLive /\ [][Next]_vars /\ WF_vars(Next)

\* the steps handed to execute_step for the running case, in loop order, are
\* at strictly increasing positions: no step is handed over twice
EachStepHandedOnce ==
    \A e, f \in 1 .. Len(executed) : e < f => executed[e].index < executed[f].index

\* the cases before the running one have one result each, in input order,
\* and the running one has none yet
EachCaseRunOnce ==
    pc \in {"loop", "prep", "iter", "finally", "video", "return"} =>
        /\ Len(all_results) = ci - 1
        /\ \A n \in 1 .. Len(all_results) : all_results[n].id = test_cases[n].id

\* C21: every case is run once and every resolved step is handed to the
\* executor at most once, and, when every browser operation returns or
\* raises, the run eventually finishes with every case of the suite reported.
C21_RunFinishesReported ==
    <>(pc = "done" /\ Len(all_results) = Len(test_cases))

-----------------------------------------------------------------------------
(* execute_step on click steps alone, on locators of up to MaxMatches      *)
(* matches.                                                                *)

MaxMatches == 6

ClickSteps == {StepOf("click"), [action |-> "click", target |-> <<"n">>]}

ClickOracles ==
    {[out |-> [k \in 1 .. MaxOps |-> IF k \in R THEN ErrAt(k) ELSE Ok],
      count |-> c, holds |-> TRUE] :
        R \in SUBSET (1 .. MaxOps), c \in 0 .. MaxMatches}

\* r = execute_step(page, step, screenshot_dir, tc_id, 0) for a click step
ClickCall ==
    /\ xpc = "idle"
    /\ \E s \in ClickSteps, o \in ClickOracles :
          /\ xstep' = s
          /\ xret' = [result |-> ExecuteStep(s, 0, o).result,
                      trace |-> ExecuteStep(s, 0, o).trace,
                      raised |-> ExecuteStep(s, 0, o).raised,
                      oracle |-> o]
    /\ xpc' = "returned"

NextClick ==
    \/ (ClickCall /\ UNCHANGED <<mainVars, parserVars>>)
    \/ (ExecReset /\ UNCHANGED <<mainVars, parserVars>>)

SpecClick == InitExec /\ [][NextClick]_vars

\* a click step returned whose first click raised and whose count() returned
FirstClickFailed ==
    /\ Returned /\ XAction = "click"
    /\ Len(xret.trace) >= 2
    /\ xret.trace[1].op = "first.click" /\ xret.trace[1].out # Ok
    /\ xret.trace[2].op = "count" /\ xret.trace[2].out = Ok

\* the probes of the call, in the order they were made
NthProbes == SelectSeq(xret.trace, LAMBDA e : e.op = "nth.click")

\* how many of the matches after the first are there to probe, up to limit
Probeable(limit) ==
    Min(IF xret.oracle.count >= 1 THEN xret.oracle.count - 1 ELSE 0, limit)

NoProbeWorked == \A j \in 1 .. Len(NthProbes) : NthProbes[j].out # Ok

\* after a failed first click the matches 1, 2, ... are probed in index
\* order, up to limit of them, up to the first that can be clicked; the step
\* fails with the first click's error when none of them could be clicked,
\* and only then
ClickProbing(limit) ==
    FirstClickFailed =>
        /\ Len(NthProbes) <= Probeable(limit)
        /\ \A j \in 1 .. Len(NthProbes) : NthProbes[j].nth = j
        /\ \A j \in 1 .. Len(NthProbes) - 1 : NthProbes[j].out # Ok
        /\ Len(NthProbes) < Probeable(limit)
              => Len(NthProbes) >= 1 /\ NthProbes[Len(NthProbes)].out = Ok
        /\ NoProbeWorked
              => /\ xret.result.status = "failed"
                 /\ xret.result.error = xret.trace[1].out
        /\ xret.result.error = xret.trace[1].out => NoProbeWorked

\* C22: when the click on the first match fails, the subsequent matches are
\* probed in index order, up to 5 of them, up to the first probe that
\* succeeds, and the step fails with the first click's error only if every
\* probed match fails or there is no subsequent match.
C22_ProbesUpToFive == ClickProbing(5)

\* the same with the bound the loop has: the matches 1 to ClickLimit - 1
ProbesUpToLimit == ClickProbing(ClickLimit - 1)

-----------------------------------------------------------------------------
(* Properties of the StepResults of a case, checked under Spec.            *)

\* the case received the implicit goto
ImplicitGotoAdded == Len(resolved_steps) = Len(CaseSteps) + 1

\* C23: for every case whose step iteration does not abort, the list of
\* StepResults is as long as the list of resolved steps (the implicit goto
\* included), and the result at position i has index i and the action of
\* the i-th resolved step, whether that step was executed or skipped.
C23_OneResultPerResolvedStep ==
    (LoopOver /\ ~aborted) =>
        /\ Len(step_results) = Len(resolved_steps)
        /\ \A j \in Recorded :
              /\ step_results[j].index = j - 1
              /\ step_results[j].action = ActionAt(j)
              /\ Executed(j) <=> StatusAt(j) # "skipped"

\* a case that received the implicit goto has run to its end without abort:
\* one of its steps was skipped, the others were executed
C23_Witness ==
    /\ pc = "return" /\ ~aborted
    /\ ImplicitGotoAdded
    /\ Len(step_results) = Len(CaseSteps) + 1
    /\ step_results[1].action = "goto" /\ Executed(1)
    /\ \E j \in Recorded : StatusAt(j) = "skipped" /\ ~Executed(j)
    /\ \E j \in Recorded : j > 1 /\ StatusAt(j) = "failed"

-----------------------------------------------------------------------------
(* Properties of the StepResult of one execute_step call, checked under    *)
(* SpecExec.                                                               *)

\* the positions of the trace at which a screenshot of a successful step
\* was taken
ShotOps == {j \in 1 .. Len(xret.trace) : xret.trace[j].op = "screenshot"}

StepPassed == Returned /\ xret.raised = None /\ xret.result.status = "passed"

\* C24: every step recorded as passed has exactly one screenshot captured
\* for it, as its last browser operation: a screenshot step captures its own
\* image and nothing after it, every other successful action is followed by
\* one screenshot.
C24_OneScreenshotLast ==
    StepPassed =>
        /\ Cardinality(ShotOps) = 1
        /\ ShotOps = {Len(xret.trace)}
        /\ xret.trace[Len(xret.trace)].out = Ok
        /\ xret.result.screenshot # None
        /\ XAction = "screenshot" => Len(xret.trace) = 1
        /\ XAction \in {"goto", "click", "fill", "select", "hover", "wait",
                        "scroll", "assert_visible", "assert_text", "assert_title"}
              => Len(xret.trace) >= 2

\* a screenshot step passed with its own screenshot as only operation
C24_Witness ==
    /\ StepPassed
    /\ XAction = "screenshot"
    /\ Len(xret.trace) = 1
    /\ xret.trace[1].op = "screenshot" /\ xret.trace[1].out = Ok
    /\ xret.result.screenshot # None

-----------------------------------------------------------------------------
(* Priority of the rules of infer_step, checked under SpecInfer.           *)

\* the declared order of the explicit-verb rules
DeclaredOrder ==
    <<"goto", "click", "fill", "fill_search", "select", "hover",
      "assert_visible", "assert_url", "assert_text", "wait", "screenshot",
      "scroll">>

Rank(action) == CHOOSE r \in 1 .. Len(DeclaredOrder) : DeclaredOrder[r] = action

\* the action of the Step a rule gives: the fill-without-target rule gives a
\* fill Step
ActionOfRule(k) ==
    IF StepActionPatterns[k].action = "fill_search" THEN "fill"
    ELSE StepActionPatterns[k].action

\* the rules that match the text infer_step works on
MatchingRules ==
    {k \in 1 .. Len(StepActionPatterns) :
        ReMatch(StepActionPatterns[k].re, PrepareText(farg)).ok}

\* the call was made on a text that is not blank once its marker is removed
InferredFromText ==
    InferReturned /\ Strip(RemoveMatch(StepMarkerRe, Strip(farg))) # <<>>

\* the actions the verb families give
FamilyActions == {"goto", "click", "fill", "assert_visible"}

\* C25: when a line matches more than one explicit-verb rule the action of
\* the Step is that of the earliest matching rule in the declared order;
\* the verb families decide only when no explicit rule matches, and the
\* screenshot fallback only when neither a rule nor a family matches.
C25_FirstMatchPriority ==
    /\ \A j, k \in 1 .. Len(StepActionPatterns) :
          j <= k => Rank(StepActionPatterns[j].action)
                       <= Rank(StepActionPatterns[k].action)
    /\ InferredFromText =>
          /\ MatchingRules # {} =>
                \E k \in MatchingRules :
                    /\ \A j \in MatchingRules : k <= j
                    /\ fret.action = ActionOfRule(k)
                    /\ "name" \notin DOMAIN fret
          /\ (MatchingRules = {} /\ SomeFamilyFound) =>
                /\ fret.action \in FamilyActions
                /\ "name" \notin DOMAIN fret
          /\ "name" \in DOMAIN fret => (MatchingRules = {} /\ ~SomeFamilyFound)

\* "verify text x is visible" matches the assert_visible rule and the
\* assert_text rule after it, and came back as an assert_visible Step
C25_Witness ==
    /\ InferReturned
    /\ farg = <<"v", "e", "r", "i", "f", "y", " ", "t", "e", "x", "t", " ", "x",
                " ", "i", "s", " ", "v", "i", "s", "i", "b", "l", "e">>
    /\ Cardinality(MatchingRules) = 2
    /\ {ActionOfRule(k) : k \in MatchingRules} = {"assert_visible", "assert_text"}
    /\ fret.action = "assert_visible"

-----------------------------------------------------------------------------
(* The input of run_test_case, checked under Spec.                         *)

\* the running case has a goto whose resolved target differs from the one
\* of the input
SomeTargetResolved ==
    \E j \in 1 .. Len(CaseSteps) :
        /\ Get(CaseSteps[j], "action", "") = "goto"
        /\ ResolvedOf(j).target # CaseSteps[j].target

ImplicitGotoRun ==
    /\ pc = "return"
    /\ ImplicitGotoAdded
    /\ ~HasGoto(CaseSteps)

-----------------------------------------------------------------------------
(* Inference and execution together: a Step built by infer_step is handed  *)
(* to execute_step on a page whose element, URL or title reads `actual`.   *)

\* needle in hay
IsInfix(needle, hay) ==
    \E i \in 0 .. Len(hay) - Len(needle) :
        SubSeq(hay, i + 1, i + Len(needle)) = needle

\* the condition of the assert statement of the step (lines 147-157)
Holds(step, actual) ==
    CASE Get(step, "action", "") = "assert_text" ->
             IsInfix(Lower(Get(step, "value", <<>>)), Lower(actual))
      [] Get(step, "action", "") = "assert_url" ->
             IsInfix(Get(step, "target", <<>>), actual)
      [] Get(step, "action", "") = "assert_title" ->
             IsInfix(Lower(Get(step, "target", <<>>)), Lower(actual))
      [] OTHER -> TRUE

\* "", "X", "abc"
ElementTexts == {<<>>, <<"X">>, <<"a", "b", "c">>}

\* browser operations of a call that can raise
MaxRoundOps == 2

\* r = execute_step(page, step, ...) for the step infer_step returned
ExecInferred ==
    /\ fpc = "returned" /\ xpc = "idle"
    /\ \E actual \in ElementTexts, R \in SUBSET (1 .. MaxRoundOps) :
          LET o == [out |-> [k \in 1 .. MaxRoundOps |->
                                IF k \in R THEN ErrAt(k) ELSE Ok],
                    count |-> 0, holds |-> Holds(fret, actual),
                    actual |-> actual]
          IN /\ xstep' = fret
             /\ xret' = [result |-> ExecuteStep(fret, 0, o).result,
                         trace |-> ExecuteStep(fret, 0, o).trace,
                         raised |-> ExecuteStep(fret, 0, o).raised,
                         oracle |-> o]
    /\ xpc' = "returned"

\* both harnesses are ready for another text
RoundReset == ExecReset /\ ParserReset

NextRound ==
    \/ (InferCall /\ UNCHANGED <<mainVars, execVars>>)
    \/ (ExecInferred /\ UNCHANGED <<mainVars, parserVars>>)
    \/ (RoundReset /\ UNCHANGED mainVars)

SpecRound == InitInfer /\ [][NextRound]_vars

\* an inferred Step has been executed
RoundReturned == fpc = "returned" /\ xpc = "returned"

\* the expected text the assert_text rule captured from the text of the call
CapturedText ==
    LET k == CHOOSE j \in 1 .. Len(StepActionPatterns) :
                 StepActionPatterns[j].action = "assert_text"
    IN Strip(ReMatch(StepActionPatterns[k].re, PrepareText(farg)).groups[1])

\* C27: every assert_text Step that infer_step produces carries the captured
\* expected text in its value field, the field execute_step compares with
\* the text of the element, so the inferred Step fails when the expected
\* text is absent from the element.
C27_AssertTextRoundTrip ==
    (RoundReturned /\ xstep.action = "assert_text") =>
        /\ "value" \in DOMAIN xstep
        /\ Get(xstep, "value", <<>>) = CapturedText
        /\ ~IsInfix(Lower(CapturedText), Lower(xret.oracle.actual))
              => xret.result.status = "failed"

\* what the code does instead: the captured text is the target of the Step,
\* the Step has no value, and it passes whenever inner_text and the
\* screenshot return, whatever the element reads
AssertTextInTarget ==
    (RoundReturned /\ xstep.action = "assert_text") =>
        /\ DOMAIN xstep = {"action", "target"}
        /\ xstep.target = CapturedText
        /\ xret.result.status = "passed"
              <=> \A j \in 1 .. Len(xret.trace) : xret.trace[j].out = Ok

-----------------------------------------------------------------------------
(* The ids of the cases of one payload, checked under SpecParse.           *)

\* C28: for every input text, no two test cases returned by
\* parse_markdown_to_cases have the same id, also when some cases carry an
\* explicit numeric id and others receive a sequence-generated one.
C28_UniqueIds ==
    ParseReturned =>
        \A i, j \in 1 .. Len(fret.test_cases) :
            i # j => fret.test_cases[i].id # fret.test_cases[j].id

\* the section "# TC-2 a" followed by the section "# TC b": the first case
\* has the id its heading gives, the second the id of its position, and
\* the two ids are the same
GivenAndGeneratedCollide ==
    /\ ParseReturned
    /\ farg.md = <<SecondHeader, StepLine, PlainHeader, StepLine>>
    /\ Len(fret.test_cases) = 2
    /\ fret.test_cases[1].id = TcId(2)
    /\ fret.test_cases[2].id = TcId(2)

-----------------------------------------------------------------------------
(* Skipped StepResults and the fields of StepResults, checked under Spec.  *)

\* the StepResults of the running case and of every case result
AllStepLists ==
    {step_results} \cup {all_results[n].steps : n \in 1 .. Len(all_results)}

\* in the list rs the result at position j comes after a failed click,
\* fill, select or hover
AfterInteractionFailure(rs, j) ==
    \E i \in 1 .. j - 1 :
        rs[i].status = "failed" /\ rs[i].action \in InteractionActions

\* C29: each StepResult with status skipped comes after a StepResult with
\* status failed whose action is click, fill, select or hover; a failed
\* goto, wait, scroll or screenshot step marks the case failed and never
\* causes a later step to be skipped.
C29_NoSpuriousSkip ==
    /\ \A rs \in AllStepLists : \A j \in 1 .. Len(rs) :
          rs[j].status = "skipped" => AfterInteractionFailure(rs, j)
    /\ \A n \in 1 .. Len(all_results) :
          (\E i \in 1 .. Len(all_results[n].steps) :
              /\ all_results[n].steps[i].status = "failed"
              /\ all_results[n].steps[i].action \in NonInteractionActions)
            => all_results[n].status = "failed"

\* the result of a case: its goto failed, the click after it was executed
\* all the same, and failed, and only the step after the click was skipped
C29_Witness ==
    /\ Len(all_results) >= 1
    /\ all_results[1].status = "failed"
    /\ LET rs == all_results[1].steps
       IN /\ Len(rs) >= 3
          /\ rs[1].action = "goto" /\ rs[1].status = "failed"
          /\ rs[2].action = "click" /\ rs[2].status = "failed"
          /\ rs[3].status = "skipped"

\* the text of the error of a skipped StepResult
SkippedError == "Skipped: prior step failed"

\* C30: in every case result a passed StepResult has a screenshot and no
\* error, a failed StepResult has an error, a skipped StepResult has no
\* screenshot and the error text "Skipped: prior step failed", and no
\* StepResult has a status other than passed, failed and skipped.
C30_StepResultFields ==
    \A rs \in AllStepLists : \A j \in 1 .. Len(rs) :
        /\ rs[j].status \in {"passed", "failed", "skipped"}
        /\ rs[j].status = "passed" => rs[j].screenshot # None /\ rs[j].error = None
        /\ rs[j].status = "failed" => rs[j].error # None
        /\ rs[j].status = "skipped" =>
              rs[j].screenshot = None /\ rs[j].error = SkippedError

\* a case result with a passed step, a failed step whose failure screenshot
\* could not be taken, and a skipped step
C30_Witness ==
    /\ Len(all_results) >= 1
    /\ LET rs == all_results[1].steps
       IN /\ Len(rs) >= 3
          /\ rs[1].status = "passed" /\ rs[1].screenshot # None
          /\ rs[2].status = "failed" /\ rs[2].screenshot = None
          /\ rs[2].error # None
          /\ rs[3].status = "skipped" /\ rs[3].error = SkippedError

====
